---- MODULE Spec2Model ----
(***************************************************************************)
(* Quote-validation engine of the legal research plugin:                   *)
(*   scripts/vq_matcher.py            the three-tier match cascade         *)
(*   scripts/run_quote_validation.py  the orchestrator                     *)
(*   scripts/state_io.py              excerpt normalisation                *)
(*   scripts/vq_annotator.py          the badges of the results page       *)
(*                                                                         *)
(* A text is a sequence of characters.  A character is a TLA+ string: an   *)
(* ASCII character stands for itself, any other character is written by    *)
(* its code point ("U+2019").  Python indexes from 0, the model from 1.    *)
(***************************************************************************)
EXTENDS Integers, Sequences, FiniteSets, TLC

\* ------------------------------------------------------------------------
\* Characters
\* ------------------------------------------------------------------------
NBSP  == "U+00A0"
ZWSP  == "U+200B"
ZWNJ  == "U+200C"
BOM   == "U+FEFF"
LSQUO == "U+2018"
RSQUO == "U+2019"
LDQUO == "U+201C"
RDQUO == "U+201D"
EMDASH == "U+2014"
ENDASH == "U+2013"
LIG_FI == "U+FB01"
LIG_FL == "U+FB02"
COMBINING_ACUTE == "U+0301"
NUL == "U+0000"

LowerLetters ==
    {"a","b","c","d","e","f","g","h","i","j","k","l","m",
     "n","o","p","q","r","s","t","u","v","w","x","y","z"}
Digits == {"0","1","2","3","4","5","6","7","8","9"}

\* str.lower() on the letters it can turn into [a-z]; every other character of
\* the model is left as it is.
UpperToLower ==
    [A |-> "a", B |-> "b", C |-> "c", D |-> "d", E |-> "e", F |-> "f", G |-> "g",
     H |-> "h", I |-> "i", J |-> "j", K |-> "k", L |-> "l", M |-> "m", N |-> "n",
     O |-> "o", P |-> "p", Q |-> "q", R |-> "r", S |-> "s", T |-> "t", U |-> "u",
     V |-> "v", W |-> "w", X |-> "x", Y |-> "y", Z |-> "z"]
lower_char(c) == IF c \in DOMAIN UpperToLower THEN UpperToLower[c] ELSE c

\* Canonical composition (NFC) of a base letter with U+0301: the precomposed
\* character, for the letters that have one.
AcuteOf ==
    [a |-> "U+00E1", c |-> "U+0107", e |-> "U+00E9", g |-> "U+01F5", i |-> "U+00ED",
     k |-> "U+1E31", l |-> "U+013A", m |-> "U+1E3F", n |-> "U+0144", o |-> "U+00F3",
     p |-> "U+1E55", r |-> "U+0155", s |-> "U+015B", u |-> "U+00FA", w |-> "U+1E83",
     y |-> "U+00FD", z |-> "U+017A",
     A |-> "U+00C1", C |-> "U+0106", E |-> "U+00C9", G |-> "U+01F4", I |-> "U+00CD",
     K |-> "U+1E30", L |-> "U+0139", M |-> "U+1E3E", N |-> "U+0143", O |-> "U+00D3",
     P |-> "U+1E54", R |-> "U+0154", S |-> "U+015A", U |-> "U+00DA", W |-> "U+1E82",
     Y |-> "U+00DD", Z |-> "U+0179"]

\* Python's \s and str.strip()/str.isspace() on the characters of the model.
IsSpace(c) == c \in {" ", "\n", "\t", NBSP}
IsAlnum(c) == c \in LowerLetters \cup Digits

\* Bytes of a character in UTF-8 (os.path.getsize counts bytes, len() counts
\* characters).
utf8_len(c) ==
    IF c \in {LSQUO, RSQUO, LDQUO, RDQUO, EMDASH, ENDASH, LIG_FI, LIG_FL, ZWSP, ZWNJ, BOM}
       \/ c \in {"U+1E31", "U+1E3F", "U+1E55", "U+1E83", "U+1E30", "U+1E3E", "U+1E54", "U+1E82"}
    THEN 3
    ELSE IF c = NBSP \/ c = COMBINING_ACUTE \/ c \in {AcuteOf[b] : b \in DOMAIN AcuteOf}
    THEN 2
    ELSE 1

\* ------------------------------------------------------------------------
\* Sequence helpers.  Texts can be long, so nothing recurses once per
\* character: a text is rebuilt by concatenating per-position pieces by halves.
\* ------------------------------------------------------------------------
MinOf(S) == CHOOSE x \in S : \A y \in S : x <= y
MaxOf(S) == CHOOSE x \in S : \A y \in S : x >= y

\* The elements of a finite set of integers in ascending order.
SortedSeq(S) == [k \in 1..Cardinality(S) |-> CHOOSE x \in S : Cardinality({y \in S : y <= x}) = k]

RECURSIVE Concat(_, _, _)
Concat(parts, lo, hi) ==
    IF lo > hi THEN <<>>
    ELSE IF lo = hi THEN parts[lo]
    ELSE LET mid == (lo + hi) \div 2
         IN  Concat(parts, lo, mid) \o Concat(parts, mid + 1, hi)
Flatten(parts) == Concat(parts, 1, Len(parts))

RECURSIVE SumSeq(_, _, _)
SumSeq(nums, lo, hi) ==
    IF lo > hi THEN 0
    ELSE IF lo = hi THEN nums[lo]
    ELSE LET mid == (lo + hi) \div 2
         IN  SumSeq(nums, lo, mid) + SumSeq(nums, mid + 1, hi)

\* b occurs in a as a contiguous run of characters (Python's `b in a`).
IsSubstring(b, a) ==
    \E off \in 0..(Len(a) - Len(b)) : SubSeq(a, off + 1, off + Len(b)) = b

\* str.strip()
strip(text) ==
    LET keep == {i \in 1..Len(text) : ~IsSpace(text[i])}
    IN  IF keep = {} THEN <<>> ELSE SubSeq(text, MinOf(keep), MaxOf(keep))

\* " ".join(tokens)
join_space(tokens) ==
    Flatten([k \in 1..Len(tokens) |-> IF k = 1 THEN tokens[k] ELSE <<" ">> \o tokens[k]])

\* ------------------------------------------------------------------------
\* vq_matcher.py: normalisation and tokenisation
\* ------------------------------------------------------------------------
\* unicodedata.normalize("NFC", text) on the characters of the model: a base
\* letter followed by U+0301 composes, everything else is already composed.
nfc(text) ==
    Flatten([i \in 1..Len(text) |->
        IF text[i] = COMBINING_ACUTE /\ i > 1 /\ text[i-1] \in DOMAIN AcuteOf
        THEN <<>>
        ELSE IF text[i] \in DOMAIN AcuteOf /\ i < Len(text) /\ text[i+1] = COMBINING_ACUTE
        THEN <<AcuteOf[text[i]]>>
        ELSE <<text[i]>>])

\* The chain of str.replace calls of normalize_text.  No replacement produces
\* a character that a later replacement consumes, so the chain is one map.
replace_char(c) ==
    IF c \in {LSQUO, RSQUO} THEN <<"'">>
    ELSE IF c \in {LDQUO, RDQUO} THEN <<"\"">>
    ELSE IF c \in {EMDASH, ENDASH} THEN <<"-">>
    ELSE IF c = LIG_FI THEN <<"f", "i">>
    ELSE IF c = LIG_FL THEN <<"f", "l">>
    ELSE IF c = NBSP THEN <<" ">>
    ELSE IF c \in {ZWSP, ZWNJ, BOM} THEN <<>>
    ELSE <<c>>

\* re.sub(r"\s+", " ", text)
collapse_whitespace(text) ==
    Flatten([i \in 1..Len(text) |->
        IF ~IsSpace(text[i]) THEN <<text[i]>>
        ELSE IF i = 1 \/ ~IsSpace(text[i-1]) THEN <<" ">>
        ELSE <<>>])

replace_chars(text) == Flatten([i \in 1..Len(text) |-> replace_char(text[i])])

normalize_text(text) == strip(collapse_whitespace(replace_chars(nfc(text))))

\* re.findall(r"[a-z0-9]+", text.lower()): the maximal runs of [a-z0-9].
tokenize(text) ==
    LET Runs(low) ==
            LET Tokens(s, e) == [k \in 1..Len(s) |-> SubSeq(low, s[k], e[k])]
            IN  Tokens(SortedSeq({i \in 1..Len(low) :
                           IsAlnum(low[i]) /\ (i = 1 \/ ~IsAlnum(low[i-1]))}),
                       SortedSeq({i \in 1..Len(low) :
                           IsAlnum(low[i]) /\ (i = Len(low) \/ ~IsAlnum(low[i+1]))}))
    IN  Runs([i \in 1..Len(text) |-> lower_char(text[i])])

\* re.sub(r"\[[^\]]*\]", " ", text): every "[" that a "]" follows opens a span
\* ending at the first "]" after it; scanning resumes after that "]".  A
\* position is inside a span iff a "]" is at or after it and a "[" is at or
\* before it with no "]" in between.
strip_brackets(text) ==
    LET closes == {j \in 1..Len(text) : text[j] = "]"}
        opens  == {j \in 1..Len(text) : text[j] = "["}
        Inside(i) ==
            /\ \E j \in closes : j >= i
            /\ \E p \in opens : p <= i /\ \A q \in closes : ~(p < q /\ q < i)
        First(i) ==
            /\ text[i] = "["
            /\ \A p \in opens : p < i => \E q \in closes : p < q /\ q < i
    IN  Flatten([i \in 1..Len(text) |->
            IF closes = {} \/ opens = {} \/ ~Inside(i) THEN <<text[i]>>
            ELSE IF First(i) THEN <<" ">>
            ELSE <<>>])

\* re.sub(r"\[\s*\.\.\.\s*\]", "\x00", text): "[", whitespace, exactly three
\* periods, whitespace, "]".  The end of the span opened at p, or 0.
bracket_ellipsis_end(text, p) ==
    LET n == Len(text)
        SkipSpace(i) == MinOf({j \in i..n : ~IsSpace(text[j])} \cup {n + 1})
        Close(d, c) ==
            IF /\ text[p] = "["
               /\ d + 2 <= n
               /\ text[d] = "." /\ text[d+1] = "." /\ text[d+2] = "."
               /\ c <= n
               /\ text[c] = "]"
            THEN c ELSE 0
        Dots(d) == Close(d, IF d + 2 <= n THEN SkipSpace(d + 3) ELSE n + 1)
    IN  Dots(SkipSpace(p + 1))

mark_bracket_ellipsis(text) ==
    LET Mark(opens) ==
            Flatten([i \in 1..Len(text) |->
                IF i \in opens THEN <<NUL>>
                ELSE IF \E p \in opens : p < i /\ i <= bracket_ellipsis_end(text, p) THEN <<>>
                ELSE <<text[i]>>])
    IN  Mark({p \in 1..Len(text) : text[p] = "[" /\ bracket_ellipsis_end(text, p) > 0})

\* re.sub(r"\.{3,}", "\x00", text): every maximal run of three or more periods.
mark_period_runs(text) ==
    LET n == Len(text)
        Dot(i) == i >= 1 /\ i <= n /\ text[i] = "."
        InRun(i) == \/ Dot(i-2) /\ Dot(i-1) /\ Dot(i)
                    \/ Dot(i-1) /\ Dot(i) /\ Dot(i+1)
                    \/ Dot(i) /\ Dot(i+1) /\ Dot(i+2)
    IN  Flatten([i \in 1..n |->
            IF ~InRun(i) THEN <<text[i]>>
            ELSE IF ~Dot(i-1) THEN <<NUL>>
            ELSE <<>>])

\* text.split("\x00"), each piece stripped, the empty ones dropped.
split_ellipsis_segments(text) ==
    LET Pieces(marked, cuts) ==
            [k \in 1..(Len(cuts) - 1) |-> strip(SubSeq(marked, cuts[k] + 1, cuts[k+1] - 1))]
        Split(marked) ==
            SelectSeq(Pieces(marked, SortedSeq({i \in 1..Len(marked) : marked[i] = NUL}
                                                   \cup {0, Len(marked) + 1})),
                      LAMBDA s : s # <<>>)
    IN  Split(mark_period_runs(mark_bracket_ellipsis(text)))

\* Fault: the search keeps the last occurrence instead of the first.
find_token_subsequence_last(haystack_tokens, needle_tokens) ==
    IF needle_tokens = <<>> THEN 0
    ELSE LET n == Len(needle_tokens)
             hits == {i \in 0..(Len(haystack_tokens) - n) :
                         SubSeq(haystack_tokens, i + 1, i + n) = needle_tokens}
         IN  IF hits = {} THEN -1 ELSE MaxOf(hits)

\* The start index of needle in haystack as a contiguous run (0-based, as in the
\* source), -1 when there is none.
find_token_subsequence(haystack_tokens, needle_tokens) ==
    IF needle_tokens = <<>> THEN 0
    ELSE LET n == Len(needle_tokens)
             hits == {i \in 0..(Len(haystack_tokens) - n) :
                         SubSeq(haystack_tokens, i + 1, i + n) = needle_tokens}
         IN  IF hits = {} THEN -1 ELSE MinOf(hits)

\* ------------------------------------------------------------------------
\* difflib.SequenceMatcher(None, a, b).ratio(), the similarity tier 3 uses.
\* Ranges are a[alo..ahi] and b[blo..bhi], both ends included.
\* ------------------------------------------------------------------------
\* The autojunk heuristic: when b has 200 characters or more, a character
\* occurring more than len(b) // 100 + 1 times is "popular" and starts no match.
AUTOJUNK_MIN_LEN == 200
popular_chars(b) ==
    IF Len(b) < AUTOJUNK_MIN_LEN THEN {}
    ELSE LET ntest == Len(b) \div 100 + 1
         IN  {c \in {b[j] : j \in 1..Len(b)} : Cardinality({j \in 1..Len(b) : b[j] = c}) > ntest}

\* find_longest_match: the longest block a[i..i+k-1] = b[j..j+k-1] of characters
\* that are not popular, the one starting earliest in a and then earliest in b;
\* then extended on both sides over equal characters, popular ones included.
\* The result is <<i, j, k>>.
find_longest_match(a, b, popular, alo, ahi, blo, bhi) ==
    LET Same(i, j) == a[i] = b[j] /\ b[j] \notin popular
        RunLen(e) ==
            LET Run(lim) ==
                    LET diff == {m \in 0..(lim - 1) : ~Same(e[1] - m, e[2] - m)}
                    IN  IF diff = {} THEN lim ELSE MinOf(diff)
            IN  Run(IF e[1] - alo < e[2] - blo THEN e[1] - alo + 1 ELSE e[2] - blo + 1)
        Extend(besti, bestj, size) ==
            LET Back(blim) ==
                    LET bdiff == {m \in 1..blim : a[besti - m] # b[bestj - m]}
                    IN  IF bdiff = {} THEN blim ELSE MinOf(bdiff) - 1
                Fwd(ai, bj, flim) ==
                    LET fdiff == {m \in 0..(flim - 1) : a[ai + m] # b[bj + m]}
                    IN  IF fdiff = {} THEN flim ELSE MinOf(fdiff)
                Block(back, fwd) == <<besti - back, bestj - back, back + size + fwd>>
            IN  Block(Back(IF besti - alo < bestj - blo THEN besti - alo ELSE bestj - blo),
                      Fwd(besti + size, bestj + size,
                          IF ahi - besti < bhi - bestj
                          THEN ahi - besti - size + 1 ELSE bhi - bestj - size + 1))
        Pick(ends, size) ==
            LET best == {e \in ends : RunLen(e) = size}
                PickJ(endi) ==
                    Extend(endi - size + 1,
                           MinOf({e[2] : e \in {x \in best : x[1] = endi}}) - size + 1,
                           size)
            IN  PickJ(MinOf({e[1] : e \in best}))
        Longest(ends) ==
            IF ends = {} THEN Extend(alo, blo, 0)
            ELSE Pick(ends, MaxOf({RunLen(e) : e \in ends}))
    IN  Longest({e \in (alo..ahi) \X {j \in blo..bhi : b[j] \notin popular} :
                    /\ Same(e[1], e[2])
                    /\ ~(e[1] < ahi /\ e[2] < bhi /\ Same(e[1] + 1, e[2] + 1))})

\* get_matching_blocks: the longest match, then the same to its left and to its
\* right.  The total number of matched characters.
RECURSIVE matched_chars(_, _, _, _, _, _, _)
matched_chars(a, b, popular, alo, ahi, blo, bhi) ==
    LET Rest(i, j, k) ==
            IF k = 0 THEN 0
            ELSE k
                 + (IF alo < i /\ blo < j
                    THEN matched_chars(a, b, popular, alo, i - 1, blo, j - 1) ELSE 0)
                 + (IF i + k <= ahi /\ j + k <= bhi
                    THEN matched_chars(a, b, popular, i + k, ahi, j + k, bhi) ELSE 0)
        Around(m) == Rest(m[1], m[2], m[3])
    IN  Around(find_longest_match(a, b, popular, alo, ahi, blo, bhi))

\* ratio() = 2.0 * matches / (len(a) + len(b)), 1.0 for two empty strings.  A
\* ratio is kept exact, as <<numerator, denominator>> with denominator > 0.
ratio(a, b) ==
    IF Len(a) + Len(b) = 0 THEN <<1, 1>>
    ELSE <<2 * matched_chars(a, b, popular_chars(b), 1, Len(a), 1, Len(b)), Len(a) + Len(b)>>

\* Comparisons of ratios, and of a ratio with a decimal threshold given in
\* thousandths (0.92 is 920).  Binary floating point orders these numbers as
\* the rationals are ordered: the denominators are far below 2^52.
ratio_gt(r, s) == r[1] * s[2] > s[1] * r[2]
ratio_ge_permille(r, t) == r[1] * 1000 >= t * r[2]

\* round(x, 3) in thousandths.  A tie goes to the even neighbour.
round3(r) ==
    LET q   == (r[1] * 1000) \div r[2]
        rem == (r[1] * 1000) % r[2]
    IN  IF 2 * rem > r[2] THEN q + 1
        ELSE IF 2 * rem < r[2] THEN q
        ELSE IF q % 2 = 0 THEN q ELSE q + 1

\* ------------------------------------------------------------------------
\* vq_matcher.py: the three tiers and the cascade
\* ------------------------------------------------------------------------
\* Fault: an excerpt that normalizes to nothing matches nothing.
tier1_nonempty_substring(norm_opinion, norm_excerpt) ==
    norm_excerpt # <<>> /\ IsSubstring(norm_excerpt, norm_opinion)

tier1_normalized_substring(norm_opinion, norm_excerpt) ==
    IsSubstring(norm_excerpt, norm_opinion)

\* The loop of tier2_token_sequence: segment k is searched from last_end on.
RECURSIVE tier2_walk(_, _, _, _)
tier2_walk(opinion_tokens, segment_token_lists, k, last_end) ==
    IF k > Len(segment_token_lists) THEN TRUE
    ELSE LET seg_tokens   == segment_token_lists[k]
             search_space == SubSeq(opinion_tokens, last_end + 1, Len(opinion_tokens))
             Found(idx) ==
                 IF idx = -1 THEN FALSE
                 ELSE tier2_walk(opinion_tokens, segment_token_lists, k + 1,
                                 last_end + idx + Len(seg_tokens))
         IN  Found(find_token_subsequence(search_space, seg_tokens))

\* The non-empty token lists of the segments of an excerpt.
segment_token_lists_of(excerpt_text) ==
    LET Lists(segments) ==
            SelectSeq([k \in 1..Len(segments) |-> tokenize(segments[k])],
                      LAMBDA tl : tl # <<>>)
    IN  Lists(split_ellipsis_segments(strip_brackets(excerpt_text)))

tier2_token_sequence(opinion_tokens, excerpt_text) ==
    LET Walk(lists) ==
            IF lists = <<>> THEN FALSE
            ELSE tier2_walk(opinion_tokens, lists, 1, 0)
    IN  Walk(segment_token_lists_of(excerpt_text))

MIN_WINDOW_TOKENS == 5
EARLY_EXIT_PERMILLE == 980

\* int(n * 0.8) and int(n * 1.2): the float product truncated, which is the
\* floor of 4n/5 and of 6n/5 for every n a text can have.
min_window_of(n) ==
    IF (4 * n) \div 5 > MIN_WINDOW_TOKENS THEN (4 * n) \div 5 ELSE MIN_WINDOW_TOKENS
\* Fault: the upper window size without the one added to int(n * 1.2).
max_window_of_exact(n) == (6 * n) \div 5
max_window_of(n) == (6 * n) \div 5 + 1

\* The windows in the order the two loops of tier3_fuzzy_match visit them:
\* <<window_size, i>>, sizes ascending, then start i (0-based) ascending.
tier3_windows(n_opinion, n_excerpt) ==
    LET lo    == min_window_of(n_excerpt)
        hi    == IF max_window_of(n_excerpt) < n_opinion
                 THEN max_window_of(n_excerpt) ELSE n_opinion
        sizes == [k \in 1..(IF hi >= lo THEN hi - lo + 1 ELSE 0) |-> lo + k - 1]
    IN  Flatten([k \in 1..Len(sizes) |->
            [i \in 1..(n_opinion - sizes[k] + 1) |-> <<sizes[k], i - 1>>]])

\* Fault: the loops return at the first window whose ratio reaches one half.
RECURSIVE tier3_scan_half(_, _, _, _, _, _)
tier3_scan_half(opinion_tokens, excerpt_str, windows, w, best_ratio, best_window) ==
    IF w > Len(windows)
    THEN [best_ratio |-> best_ratio, best_window |-> best_window, examined |-> Len(windows)]
    ELSE LET window_size == windows[w][1]
             i           == windows[w][2]
             Best(new_ratio, new_window) ==
                 IF ratio_ge_permille(new_ratio, 500)
                 THEN [best_ratio |-> new_ratio, best_window |-> new_window, examined |-> w]
                 ELSE tier3_scan_half(opinion_tokens, excerpt_str, windows, w + 1,
                                      new_ratio, new_window)
             Compare(window_str, r) ==
                 IF ratio_gt(r, best_ratio) THEN Best(r, window_str)
                 ELSE Best(best_ratio, best_window)
             Window(window_str) == Compare(window_str, ratio(excerpt_str, window_str))
         IN  Window(join_space(SubSeq(opinion_tokens, i + 1, i + window_size)))

\* The body of the loops from window w on: best so far in, (best_ratio,
\* best_window) out, returning as soon as best_ratio >= 0.98.  examined is
\* the number of windows whose ratio was computed.
RECURSIVE tier3_scan(_, _, _, _, _, _)
tier3_scan(opinion_tokens, excerpt_str, windows, w, best_ratio, best_window) ==
    IF w > Len(windows)
    THEN [best_ratio |-> best_ratio, best_window |-> best_window, examined |-> Len(windows)]
    ELSE LET window_size == windows[w][1]
             i           == windows[w][2]
             Best(new_ratio, new_window) ==
                 IF ratio_ge_permille(new_ratio, EARLY_EXIT_PERMILLE)
                 THEN [best_ratio |-> new_ratio, best_window |-> new_window, examined |-> w]
                 ELSE tier3_scan(opinion_tokens, excerpt_str, windows, w + 1,
                                 new_ratio, new_window)
             Compare(window_str, r) ==
                 IF ratio_gt(r, best_ratio) THEN Best(r, window_str)
                 ELSE Best(best_ratio, best_window)
             Window(window_str) == Compare(window_str, ratio(excerpt_str, window_str))
         IN  Window(join_space(SubSeq(opinion_tokens, i + 1, i + window_size)))

tier3_fuzzy_match(opinion_tokens, excerpt_text) ==
    LET Scan(excerpt_tokens) ==
            IF excerpt_tokens = <<>>
            THEN [best_ratio |-> <<0, 1>>, best_window |-> <<>>, examined |-> 0]
            ELSE tier3_scan(opinion_tokens, join_space(excerpt_tokens),
                            tier3_windows(Len(opinion_tokens), Len(excerpt_tokens)),
                            1, <<0, 1>>, <<>>)
    IN  Scan(tokenize(strip_brackets(excerpt_text)))

LIKELY_PERMILLE == 920
POSSIBLE_PERMILLE == 850
TRUNCATION_LENGTH == 49500
PREVIEW_CHARS == 200

preview_of(best_window) ==
    SubSeq(best_window, 1, IF Len(best_window) < PREVIEW_CHARS THEN Len(best_window) ELSE PREVIEW_CHARS)

\* Fault: tier 2 is tried before tier 1.
validate_excerpt_tier2_first(opinion_text, excerpt_text, opinion_length) ==
    LET Fuzzy(fuzzy) ==
            IF ratio_ge_permille(fuzzy.best_ratio, LIKELY_PERMILLE)
            THEN [status |-> "likely_match", match_tier |-> "fuzzy",
                  similarity |-> round3(fuzzy.best_ratio),
                  best_match_preview |-> preview_of(fuzzy.best_window)]
            ELSE IF ratio_ge_permille(fuzzy.best_ratio, POSSIBLE_PERMILLE)
            THEN [status |-> "possible_match", match_tier |-> "fuzzy",
                  similarity |-> round3(fuzzy.best_ratio),
                  best_match_preview |-> preview_of(fuzzy.best_window)]
            ELSE [status |-> IF opinion_length >= TRUNCATION_LENGTH
                             THEN "not_found_truncated" ELSE "not_found",
                  match_tier |-> "none",
                  similarity |-> round3(fuzzy.best_ratio),
                  best_match_preview |-> preview_of(fuzzy.best_window)]
        Cascade(norm_opinion, norm_excerpt, opinion_tokens) ==
            IF tier2_token_sequence(opinion_tokens, excerpt_text)
            THEN [status |-> "verified", match_tier |-> "token_sequence",
                  similarity |-> 1000, best_match_preview |-> <<>>]
            ELSE IF tier1_normalized_substring(norm_opinion, norm_excerpt)
            THEN [status |-> "verified", match_tier |-> "normalized_exact",
                  similarity |-> 1000, best_match_preview |-> <<>>]
            ELSE Fuzzy(tier3_fuzzy_match(opinion_tokens, excerpt_text))
    IN  Cascade(normalize_text(opinion_text),
                normalize_text(strip_brackets(excerpt_text)),
                tokenize(opinion_text))

\* Fault: the thresholds are applied to the rounded ratio.
validate_excerpt_rounded(opinion_text, excerpt_text, opinion_length) ==
    LET Fuzzy(fuzzy) ==
            IF round3(fuzzy.best_ratio) >= LIKELY_PERMILLE
            THEN [status |-> "likely_match", match_tier |-> "fuzzy",
                  similarity |-> round3(fuzzy.best_ratio),
                  best_match_preview |-> preview_of(fuzzy.best_window)]
            ELSE IF round3(fuzzy.best_ratio) >= POSSIBLE_PERMILLE
            THEN [status |-> "possible_match", match_tier |-> "fuzzy",
                  similarity |-> round3(fuzzy.best_ratio),
                  best_match_preview |-> preview_of(fuzzy.best_window)]
            ELSE [status |-> IF opinion_length >= TRUNCATION_LENGTH
                             THEN "not_found_truncated" ELSE "not_found",
                  match_tier |-> "none",
                  similarity |-> round3(fuzzy.best_ratio),
                  best_match_preview |-> preview_of(fuzzy.best_window)]
        Cascade(norm_opinion, norm_excerpt, opinion_tokens) ==
            IF tier1_normalized_substring(norm_opinion, norm_excerpt)
            THEN [status |-> "verified", match_tier |-> "normalized_exact",
                  similarity |-> 1000, best_match_preview |-> <<>>]
            ELSE IF tier2_token_sequence(opinion_tokens, excerpt_text)
            THEN [status |-> "verified", match_tier |-> "token_sequence",
                  similarity |-> 1000, best_match_preview |-> <<>>]
            ELSE Fuzzy(tier3_fuzzy_match(opinion_tokens, excerpt_text))
    IN  Cascade(normalize_text(opinion_text),
                normalize_text(strip_brackets(excerpt_text)),
                tokenize(opinion_text))

\* validate_excerpt.  similarity is in thousandths: 1.0 is 1000.  opinion_text
\* is the opinion without its trailing blank lines (see OpinionFiles below);
\* opinion_length is len() of the whole text.
validate_excerpt(opinion_text, excerpt_text, opinion_length) ==
    LET Fuzzy(fuzzy) ==
            IF ratio_ge_permille(fuzzy.best_ratio, LIKELY_PERMILLE)
            THEN [status |-> "likely_match", match_tier |-> "fuzzy",
                  similarity |-> round3(fuzzy.best_ratio),
                  best_match_preview |-> preview_of(fuzzy.best_window)]
            ELSE IF ratio_ge_permille(fuzzy.best_ratio, POSSIBLE_PERMILLE)
            THEN [status |-> "possible_match", match_tier |-> "fuzzy",
                  similarity |-> round3(fuzzy.best_ratio),
                  best_match_preview |-> preview_of(fuzzy.best_window)]
            ELSE [status |-> IF opinion_length >= TRUNCATION_LENGTH
                             THEN "not_found_truncated" ELSE "not_found",
                  match_tier |-> "none",
                  similarity |-> round3(fuzzy.best_ratio),
                  best_match_preview |-> preview_of(fuzzy.best_window)]
        Cascade(norm_opinion, norm_excerpt, opinion_tokens) ==
            IF tier1_normalized_substring(norm_opinion, norm_excerpt)
            THEN [status |-> "verified", match_tier |-> "normalized_exact",
                  similarity |-> 1000, best_match_preview |-> <<>>]
            ELSE IF tier2_token_sequence(opinion_tokens, excerpt_text)
            THEN [status |-> "verified", match_tier |-> "token_sequence",
                  similarity |-> 1000, best_match_preview |-> <<>>]
            ELSE Fuzzy(tier3_fuzzy_match(opinion_tokens, excerpt_text))
    IN  Cascade(normalize_text(opinion_text),
                normalize_text(strip_brackets(excerpt_text)),
                tokenize(opinion_text))

\* Fault: a blank excerpt is not set aside before the cascade.
matcher_result_no_skip(opinion_text, opinion_length, excerpt_text, i) ==
    LET Record(r) ==
            [excerpt_index |-> i, status |-> r.status, match_tier |-> r.match_tier,
             similarity |-> r.similarity, best_match_preview |-> r.best_match_preview]
    IN  Record(validate_excerpt(opinion_text, excerpt_text, opinion_length))

\* One pass of the loop of main() of vq_matcher.py, for the excerpt at 0-based
\* index i.
matcher_result(opinion_text, opinion_length, excerpt_text, i) ==
    LET Record(r) ==
            [excerpt_index |-> i, status |-> r.status, match_tier |-> r.match_tier,
             similarity |-> r.similarity, best_match_preview |-> r.best_match_preview]
    IN  IF strip(excerpt_text) = <<>>
        THEN [excerpt_index |-> i, status |-> "skipped", match_tier |-> "none",
              similarity |-> 0, best_match_preview |-> <<>>]
        ELSE Record(validate_excerpt(opinion_text, excerpt_text, opinion_length))

\* ------------------------------------------------------------------------
\* Inputs of the cascade
\* ------------------------------------------------------------------------
Rep(c, n) == [i \in 1..n |-> c]

\* Excerpts built from at most MaxPieces pieces.
MaxPieces == 3
ExcerptPieces == {<<"a">>, <<"b">>, <<" ">>, <<".", ".", ".">>, <<"[">>, <<"]">>}
RECURSIVE PieceTexts(_)
PieceTexts(n) ==
    IF n = 0 THEN {<<>>}
    ELSE LET shorter == PieceTexts(n - 1)
         IN  shorter \cup {t \o p : t \in shorter, p \in ExcerptPieces}
ShortOpinions ==
    {<<"a", " ", "b">>, <<"b", " ", "a", " ", "b">>, <<"a", " ", "c", " ", "b">>, <<"b", ".", "a">>}

PREFIX40 == <<"a", "b", "c", "d", "e", "f", "g", "h", " ", "i", "j", "k", "l", "m", "n", "o", "p", " ", "q", "r", "s", "t", "u", "v", "w", "x", " ", "a", "b", "c", "d", "e", "f", "g", "h", " ", "i", "j", "k", "l">>
PREFIX48 == <<"a", "b", "c", "d", "e", "f", "g", "h", "i", "j", " ", "k", "l", "m", "n", "o", "p", "q", "r", "s", "t", " ", "u", "v", "w", "x", "y", "z", "a", "b", "c", "d", " ", "e", "f", "g", "h", "i", "j", "k", "l", "m", "n", " ", "o", "p", "q", "r">>
LONG_TOKEN == Rep("a", 500)
LONG_PREFIX == LONG_TOKEN \o <<" ">> \o LONG_TOKEN \o <<" ">> \o LONG_TOKEN \o <<" ">>
               \o LONG_TOKEN \o <<" ">> \o Rep("a", 499)
DOG_OPINION == <<"t", "h", "e", " ", "d", "o", "g", " ", "r", "a", "n", " ", "h", "o", "m", "e", " ", "y", "e", "s", "t", "e", "r", "d", "a", "y", " ", "t", "h", "e", "n", " ", "j", "u", "m", "p", "e", "d", " ", "h", "i", "g", "h", " ", "o", "v", "e", "r", " ", "t", "h", "e", " ", "f", "e", "n", "c", "e">>
FAST_OPINION == <<"t", "h", "e", " ", "d", "o", "g", " ", "r", "a", "n", " ", "h", "o", "m", "e", " ", "f", "a", "s", "t">>

\* Five tokens of 20 characters, "aaa..a bbb..b ccc..c ddd..d eee..e", with the
\* last character of the first token and of the second as given.
NEAR_QUOTE(a_end, b_end) ==
    Rep("a", 19) \o a_end \o <<" ">> \o Rep("b", 19) \o b_end \o <<" ">> \o Rep("c", 20)
    \o <<" ">> \o Rep("d", 20) \o <<" ">> \o Rep("e", 20)

\* <<opinion, excerpt>> pairs that reach the fuzzy tier and the edges of the
\* other two.
CuratedPairs ==
    { <<DOG_OPINION, <<"t", "h", "e", " ", "d", "o", "g", " ", "[", "r", "a", "n", "]", " ", ".", ".", ".", " ", "j", "u", "m", "p", "e", "d", " ", "h", "i", "g", "h">>>>,
      <<DOG_OPINION, <<"j", "u", "m", "p", "e", "d", " ", "h", "i", "g", "h", " ", ".", ".", ".", " ", "t", "h", "e", " ", "d", "o", "g">>>>,
      <<FAST_OPINION, <<"t", "h", "e", " ", "d", "o", "g", " ", "r", "a", "n", " ", "h", "o", "m", "e", " ", "f", "a", "s", "x">>>>,
      <<FAST_OPINION, <<"t", "h", "e", " ", "d", "o", "g", " ", "r", "a", "n", " ", "h", "o", "x", "e", " ", "f", "a", "s", "x">>>>,
      <<FAST_OPINION, <<"z", "z", "z">>>>,
      <<FAST_OPINION, <<"T", "h", "e", " ", "D", "o", "g">>>>,
      <<FAST_OPINION, <<"a", " ", "c", "a", "t", " ", "s", "a", "t", " ", "o", "n", " ", "m", "y", " ", "m", "a", "t">>>>,
      <<FAST_OPINION, <<ZWSP>>>>,
      <<FAST_OPINION, <<"[", "s", "i", "c", "]">>>>,
      <<FAST_OPINION, <<"!", "!", "!">>>>,
      <<<<"h", "e", " ", "s", "a", "i", "d", " ", "\"", "n", "o", "\"", " ", "t", "o", " ", "i", "t">>, <<"s", "a", "i", "d", " ", LDQUO, "n", "o", RDQUO>>>>,
      <<<<"a", "b", "c", "d", " ", "e", "f", "g", "h", " ", "i", "j", "k", "l", " ", "m", "n", "o", "p", " ", "q", "r", "s", "t", "u">>, <<"a", "b", "c", "d", " ", "e", "f", "g", "h", " ", "i", "j", "k", "l", " ", "m", "n", "o", "p", " ", "q", "r", "s", "x", "y">>>>,
      <<<<"a", "b", "c", " ", "d", "e", "f", " ", "g", "h", "i", " ", "j", "k", "l", " ", "m", "n", "o", "p">>, <<"a", "b", "c", " ", "d", "e", "f", " ", "g", "h", "i", " ", "j", "k", "l", " ", "m", "x", "y", "z">>>>,
      <<PREFIX40 \o <<"0", "1", "2", "3">>, PREFIX40 \o <<"m", "n", "o">>>>,
      <<PREFIX48 \o <<"z", "y", "x", "w", "v", "u", "t", "s", "r">>, PREFIX48 \o <<"0", "1", "2", "3", "4", "5", "6", "7">>>>,
      <<FAST_OPINION, <<"e", ZWSP, COMBINING_ACUTE>>>>,
      <<FAST_OPINION, <<LIG_FI, COMBINING_ACUTE>>>>,
      <<FAST_OPINION, <<BOM, "t", "h", "e", " ", " ", "d", "o", "g", COMBINING_ACUTE>>>>,
      <<DOG_OPINION, <<"t", "h", "e", " ", "d", "o", "g", " ", "[", ".", ".", ".", "]", " ", "j", "u", "m", "p", "e", "d", " ", "h", "i", "g", "h">>>>,
      <<DOG_OPINION, <<"t", "h", "e", " ", "d", "o", "g", " ", ".", ".", ".", " ", "j", "u", "m", "p", "e", "d", " ", "h", "i", "g", "h">>>>,
      <<DOG_OPINION, <<"t", "h", "e", " ", "d", "o", "g", " ", "[", " ", ".", ".", ".", " ", "]", " ", "j", "u", "m", "p", "e", "d", " ", "h", "i", "g", "h">>>>,
      <<DOG_OPINION,
        <<"t", "h", "e", " ", "d", "o", "g", " ", "r", "a", "n", " ", "h", "o", "m", "e", " ",
          "t", "h", "e", "n", " ", "j", "u", "m", "p", "e", "d", " ", "h", "i", "g", "h">>>>,
      <<NEAR_QUOTE(<<"x">>, <<"x">>) \o <<" ">> \o NEAR_QUOTE(<<"y">>, <<"b">>),
        NEAR_QUOTE(<<"a">>, <<"b">>)>> }

\* An opinion and an excerpt of five tokens of 500 characters that differ in
\* their last character; tried at the length of the opinion only.
LongPair == <<LONG_PREFIX \o <<"y">>, LONG_PREFIX \o <<"x">>>>

\* len(opinion_text) of the opinions tried: the text as given, and for the
\* curated pairs also the text followed by blank lines up to the lengths
\* around the truncation limit.
PaddedLengths == {TRUNCATION_LENGTH - 1, TRUNCATION_LENGTH}

CascadeInputs ==
    UNION {{[opinion |-> p[1], excerpt |-> p[2], length |-> n] :
               n \in {Len(p[1])} \cup PaddedLengths} : p \in CuratedPairs}
    \cup {[opinion |-> p[1], excerpt |-> p[2], length |-> Len(p[1])] :
              p \in ShortOpinions \X PieceTexts(MaxPieces)}
    \cup {[opinion |-> LongPair[1], excerpt |-> LongPair[2], length |-> Len(LongPair[1])]}

\* ------------------------------------------------------------------------
\* State
\* ------------------------------------------------------------------------
VARIABLES
    \* vq_matcher.py, one pass of the loop of main()
    opinion_text,       \* the opinion read from the file, without trailing blank lines
    opinion_length,     \* len(opinion_text)
    excerpt_text,       \* excerpt_obj.get("text", "")
    result,             \* the record appended to results
    matcher_pc,         \* "idle", "start", "done"
    \* run_quote_validation.py, main()
    state_file,         \* the session state file on disk
    state,              \* the dict load_state returned; save_state writes it back
    files,              \* cluster id -> the opinion file /tmp/vq_opinion_<id>.txt
    do_annotate,        \* "--annotate" in sys.argv
    pc,                 \* position in main()
    cases_with_excerpts,
    present,
    missing,
    case_pos,           \* the number of cases the loop of step 2 has processed
    all_results,
    summary,
    per_case_summary,
    matcher_log,        \* the runs of vq_matcher.py so far: <<cluster id, outcome>>
    annotated,
    results_json,       \* /tmp/vq_annotator_input.json, the results file of vq_annotator.py
    annotator_run,      \* how the run of vq_annotator.py ended: "none", "ok", "error", ...
    output,             \* the JSON printed to stdout
    \* vq_annotator.py, annotate_html() on the page of main()
    html_content,       \* the page as read from the file
    used_results,       \* the indices of the results already assigned to a block
    scan_pos,           \* where the search for the next <blockquote> resumes
    annotated_html,     \* the output of the substitution so far
    assignments,        \* per block handled: its place in the page and what it was given
    annotator_pc,       \* "idle", "scan", "done"
    previous_pass       \* the run of vq_annotator.py on the page before this one, if any

matcher_vars == <<opinion_text, opinion_length, excerpt_text, result, matcher_pc>>
main_vars ==
    <<state_file, state, files, do_annotate, pc, cases_with_excerpts, present, missing, case_pos,
      all_results, summary, per_case_summary, matcher_log, annotated, results_json,
      annotator_run, output>>
page_vars ==
    <<html_content, used_results, scan_pos, annotated_html, assignments, annotator_pc,
      previous_pass>>
vars == <<matcher_vars, main_vars, page_vars>>

NoResult == [excerpt_index |-> -1, status |-> "", match_tier |-> "", similarity |-> 0,
             best_match_preview |-> <<>>]

MatcherIdle ==
    /\ opinion_text = <<>>
    /\ opinion_length = 0
    /\ excerpt_text = <<>>
    /\ result = NoResult
    /\ matcher_pc = "idle"

NoPass == [ran |-> FALSE, html_content |-> <<>>, annotated_html |-> <<>>, assignments |-> <<>>]

PageIdle ==
    /\ previous_pass = NoPass
    /\ html_content = <<>>
    /\ used_results = {}
    /\ scan_pos = 1
    /\ annotated_html = <<>>
    /\ assignments = <<>>
    /\ annotator_pc = "idle"

\* ------------------------------------------------------------------------
\* The cascade on one excerpt: vq_matcher.py main(), lines 137-144
\* ------------------------------------------------------------------------
SkipExcerpt ==
    /\ matcher_pc = "start"
    /\ strip(excerpt_text) = <<>>
    /\ result' = matcher_result(opinion_text, opinion_length, excerpt_text, 0)
    /\ matcher_pc' = "done"
    /\ UNCHANGED <<opinion_text, opinion_length, excerpt_text, main_vars, page_vars>>

ValidateExcerpt ==
    /\ matcher_pc = "start"
    /\ strip(excerpt_text) # <<>>
    /\ result' = matcher_result(opinion_text, opinion_length, excerpt_text, 0)
    /\ matcher_pc' = "done"
    /\ UNCHANGED <<opinion_text, opinion_length, excerpt_text, main_vars, page_vars>>

\* ------------------------------------------------------------------------
\* state_io.py and run_quote_validation.py
\* ------------------------------------------------------------------------
\* A raw excerpt of a case record is a plain string or a dict; a dict may lack
\* its "text" key.  [kind, has_text, text]
normalize_excerpts(case) ==
    LET raw  == IF case.key_excerpts # <<>> THEN case.key_excerpts ELSE case.excerpts
        kept == SelectSeq(raw, LAMBDA ex : ex.kind \in {"str", "dict"})
    IN  [k \in 1..Len(kept) |-> [text |-> IF kept[k].has_text THEN kept[k].text ELSE <<>>]]

\* An opinion file: body followed by pad newlines.  The newlines are trailing
\* whitespace, which normalize_text strips and tokenize skips, so the matcher
\* sees them only in len(opinion_text).
file_length(f) == Len(f.body) + f.pad
file_size(f) == SumSeq([i \in 1..Len(f.body) |-> utf8_len(f.body[i])], 1, Len(f.body)) + f.pad

MIN_OPINION_BYTES == 1000
TRUNCATION_BYTES == 49500
EXCERPT_PREVIEW_CHARS == 80

\* check_opinion_files: which opinion files exist with at least 1000 bytes.
check_present(cluster_ids) ==
    LET ok == {cid \in {cluster_ids[k] : k \in 1..Len(cluster_ids)} :
                  files[cid].exists /\ file_size(files[cid]) >= MIN_OPINION_BYTES}
    IN  [cid \in ok |-> [path |-> cid, size |-> file_size(files[cid])]]

\* Fault: a file of exactly 1000 bytes is reported as too small.
check_missing_inclusive(cluster_ids) ==
    LET bad == SelectSeq(cluster_ids, LAMBDA cid :
                   ~files[cid].exists \/ file_size(files[cid]) <= MIN_OPINION_BYTES)
    IN  [k \in 1..Len(bad) |->
            [cluster_id |-> bad[k],
             reason |-> IF files[bad[k]].exists
                        THEN <<"too small", file_size(files[bad[k]])>>
                        ELSE <<"file not found">>]]

check_missing(cluster_ids) ==
    LET bad == SelectSeq(cluster_ids, LAMBDA cid :
                   ~files[cid].exists \/ file_size(files[cid]) < MIN_OPINION_BYTES)
    IN  [k \in 1..Len(bad) |->
            [cluster_id |-> bad[k],
             reason |-> IF files[bad[k]].exists
                        THEN <<"too small", file_size(files[bad[k]])>>
                        ELSE <<"file not found">>]]

StatusNames ==
    {"verified", "likely_match", "possible_match", "not_found", "not_found_truncated", "skipped"}
EmptySummary ==
    [total |-> 0, verified |-> 0, likely_match |-> 0, possible_match |-> 0,
     not_found |-> 0, not_found_truncated |-> 0, skipped |-> 0]
EmptyCaseCounts ==
    [verified |-> 0, likely_match |-> 0, possible_match |-> 0,
     not_found |-> 0, not_found_truncated |-> 0]

\* state["quote_validation"] of a session that has not been validated yet.
NoValidation == [validated |-> FALSE, summary |-> EmptySummary, results |-> <<>>]

prefix_of(text, n) == SubSeq(text, 1, IF Len(text) < n THEN Len(text) ELSE n)

\* The stdout of vq_matcher.py for one case: one record per excerpt, in order.
matcher_output(opinion_file, excerpts) ==
    [k \in 1..Len(excerpts) |->
        matcher_result(opinion_file.body, file_length(opinion_file), excerpts[k].text, k - 1)]

\* Fault: a failed matcher run yields one record for the whole case.
matcher_error_results_single(excerpts) ==
    <<[excerpt_index |-> 0, status |-> "not_found", match_tier |-> "error",
       similarity |-> 0, best_match_preview |-> <<>>]>>

\* What run_matcher returns when the matcher exits non-zero or raises.
matcher_error_results(excerpts) ==
    [k \in 1..Len(excerpts) |->
        [excerpt_index |-> k - 1, status |-> "not_found", match_tier |-> "error",
         similarity |-> 0, best_match_preview |-> <<>>]]

\* Lines 133-147: the records of a case whose opinion file is missing.
missing_case_results(case, excerpts) ==
    [k \in 1..Len(excerpts) |->
        [cluster_id |-> case.cluster_id, case_name |-> case.case_name,
         excerpt_index |-> k - 1,
         excerpt_preview |-> prefix_of(excerpts[k].text, EXCERPT_PREVIEW_CHARS),
         excerpt_text |-> excerpts[k].text,
         status |-> "not_found_truncated", match_tier |-> "none",
         similarity |-> 0, best_match_preview |-> <<>>]]

\* Fault: not_found is kept whatever the size of the opinion file.
add_matcher_result_no_reclassify(acc, case, excerpts, opinion_info, mr) ==
    LET idx    == mr.excerpt_index
        status == mr.status
        text   == IF idx < Len(excerpts) THEN excerpts[idx + 1].text ELSE <<>>
        r      == [cluster_id |-> case.cluster_id, case_name |-> case.case_name,
                   excerpt_index |-> idx,
                   excerpt_preview |-> prefix_of(text, EXCERPT_PREVIEW_CHARS),
                   excerpt_text |-> text,
                   status |-> status, match_tier |-> mr.match_tier,
                   similarity |-> mr.similarity,
                   best_match_preview |-> mr.best_match_preview]
        counted == [acc.summary EXCEPT !.total = @ + 1]
    IN  [results |-> Append(acc.results, r),
         summary |-> IF status \in DOMAIN counted
                     THEN [counted EXCEPT ![status] = @ + 1] ELSE counted,
         case_counts |->
             [s \in DOMAIN acc.case_counts \cup {status} |->
                 IF s = status
                 THEN (IF s \in DOMAIN acc.case_counts THEN acc.case_counts[s] ELSE 0) + 1
                 ELSE acc.case_counts[s]]]

\* Fault: a record is counted under the status of the first record of the
\* run, when there is one.
add_matcher_result_stale_status(acc, case, excerpts, opinion_info, mr) ==
    LET idx    == mr.excerpt_index
        status == IF mr.status = "not_found" /\ opinion_info.size >= TRUNCATION_BYTES
                  THEN "not_found_truncated" ELSE mr.status
        text   == IF idx < Len(excerpts) THEN excerpts[idx + 1].text ELSE <<>>
        r      == [cluster_id |-> case.cluster_id, case_name |-> case.case_name,
                   excerpt_index |-> idx,
                   excerpt_preview |-> prefix_of(text, EXCERPT_PREVIEW_CHARS),
                   excerpt_text |-> text,
                   status |-> status, match_tier |-> mr.match_tier,
                   similarity |-> mr.similarity,
                   best_match_preview |-> mr.best_match_preview]
        counted == [acc.summary EXCEPT !.total = @ + 1]
        stale   == IF acc.results = <<>> THEN status ELSE acc.results[1].status
    IN  [results |-> Append(acc.results, r),
         summary |-> IF stale \in DOMAIN counted
                     THEN [counted EXCEPT ![stale] = @ + 1] ELSE counted,
         case_counts |->
             [s \in DOMAIN acc.case_counts \cup {status} |->
                 IF s = status
                 THEN (IF s \in DOMAIN acc.case_counts THEN acc.case_counts[s] ELSE 0) + 1
                 ELSE acc.case_counts[s]]]

\* Lines 157-181, one pass: acc is [results, summary, case_counts].
add_matcher_result(acc, case, excerpts, opinion_info, mr) ==
    LET idx    == mr.excerpt_index
        status == IF mr.status = "not_found" /\ opinion_info.size >= TRUNCATION_BYTES
                  THEN "not_found_truncated" ELSE mr.status
        text   == IF idx < Len(excerpts) THEN excerpts[idx + 1].text ELSE <<>>
        r      == [cluster_id |-> case.cluster_id, case_name |-> case.case_name,
                   excerpt_index |-> idx,
                   excerpt_preview |-> prefix_of(text, EXCERPT_PREVIEW_CHARS),
                   excerpt_text |-> text,
                   status |-> status, match_tier |-> mr.match_tier,
                   similarity |-> mr.similarity,
                   best_match_preview |-> mr.best_match_preview]
        counted == [acc.summary EXCEPT !.total = @ + 1]
    IN  [results |-> Append(acc.results, r),
         summary |-> IF status \in DOMAIN counted
                     THEN [counted EXCEPT ![status] = @ + 1] ELSE counted,
         case_counts |->
             [s \in DOMAIN acc.case_counts \cup {status} |->
                 IF s = status
                 THEN (IF s \in DOMAIN acc.case_counts THEN acc.case_counts[s] ELSE 0) + 1
                 ELSE acc.case_counts[s]]]

RECURSIVE fold_matcher_results(_, _, _, _, _, _)
fold_matcher_results(acc, case, excerpts, opinion_info, matcher_results, k) ==
    IF k > Len(matcher_results) THEN acc
    ELSE fold_matcher_results(
             add_matcher_result(acc, case, excerpts, opinion_info, matcher_results[k]),
             case, excerpts, opinion_info, matcher_results, k + 1)

\* ------------------------------------------------------------------------
\* Inputs of a validation run
\* ------------------------------------------------------------------------
MaxCases == 2
MaxExcerpts == 2

RUN_OPINION == FAST_OPINION \o <<" ", RSQUO>>
\* An excerpt longer than the 80 characters of a preview, not in RUN_OPINION.
LONG_EXCERPT == Rep("z", EXCERPT_PREVIEW_CHARS + 1)
RawExcerptPool ==
    { [kind |-> "str",  has_text |-> TRUE,  text |-> <<"t", "h", "e", " ", "d", "o", "g", " ", "r", "a", "n">>],
      [kind |-> "dict", has_text |-> TRUE,  text |-> <<"z", "z", "z">>],
      [kind |-> "dict", has_text |-> FALSE, text |-> <<>>] }

RECURSIVE RawExcerptLists(_)
RawExcerptLists(n) ==
    IF n = 0 THEN {<<>>}
    ELSE LET shorter == RawExcerptLists(n - 1)
         IN  shorter \cup {Append(l, ex) : l \in shorter, ex \in RawExcerptPool}

\* The excerpt lists of a case: up to MaxExcerpts excerpts of the pool, or the
\* one long excerpt.
RawExcerptChoices ==
    RawExcerptLists(MaxExcerpts)
    \cup {<<[kind |-> "str", has_text |-> TRUE, text |-> LONG_EXCERPT]>>}

\* The opinion files tried: none, RUN_OPINION padded to the sizes around the
\* two thresholds, and a file of MIN_OPINION_BYTES bytes that are not UTF-8
\* text (decodable = FALSE): vq_matcher.py line 129-130 opens it with
\* encoding="utf-8" and read() raises.
FileSizes == {MIN_OPINION_BYTES - 1, MIN_OPINION_BYTES, TRUNCATION_BYTES - 1, TRUNCATION_BYTES}
OpinionFiles ==
    {[exists |-> FALSE, decodable |-> TRUE, body |-> <<>>, pad |-> 0]}
    \cup {[exists |-> TRUE, decodable |-> TRUE, body |-> RUN_OPINION,
           pad |-> n - file_size([body |-> RUN_OPINION, pad |-> 0])] : n \in FileSizes}
    \cup {[exists |-> TRUE, decodable |-> FALSE, body |-> <<>>, pad |-> MIN_OPINION_BYTES]}

\* Case k has cluster id k; odd ids keep their excerpts under "key_excerpts",
\* even ids under "excerpts".
CaseRecord(cid, raw) ==
    [cluster_id |-> cid, case_name |-> <<"case", cid>>,
     key_excerpts |-> IF cid % 2 = 1 THEN raw ELSE <<>>,
     excerpts |-> IF cid % 2 = 1 THEN <<>> ELSE raw]

MainIdle ==
    /\ state = [search_id |-> "", analyzed_cases |-> <<>>, quote_validation |-> NoValidation]
    /\ state_file = state
    /\ files = <<>>
    /\ do_annotate = FALSE
    /\ pc = "idle"
    /\ cases_with_excerpts = <<>>
    /\ present = <<>>
    /\ missing = <<>>
    /\ case_pos = 0
    /\ all_results = <<>>
    /\ summary = EmptySummary
    /\ per_case_summary = <<>>
    /\ matcher_log = <<>>
    /\ annotated = FALSE
    /\ annotator_run = "none"
    /\ output = [status |-> "none"]

InitCascade ==
    /\ \E inp \in CascadeInputs :
          /\ opinion_text = inp.opinion
          /\ opinion_length = inp.length
          /\ excerpt_text = inp.excerpt
    /\ result = NoResult
    /\ matcher_pc = "start"
    /\ MainIdle
    /\ results_json = <<>>
    /\ PageIdle

Init ==
    /\ MatcherIdle
    /\ PageIdle
    /\ \E n \in 0..MaxCases :
          /\ \E raws \in [1..n -> RawExcerptChoices] :
                state = [search_id |-> "s1",
                         analyzed_cases |-> [k \in 1..n |-> CaseRecord(k, raws[k])],
                         quote_validation |-> NoValidation]
          /\ files \in [1..n -> OpinionFiles]
    /\ state_file = state
    /\ do_annotate \in BOOLEAN
    /\ pc = "start"
    /\ cases_with_excerpts = <<>>
    /\ present = <<>>
    /\ missing = <<>>
    /\ case_pos = 0
    /\ all_results = <<>>
    /\ summary = EmptySummary
    /\ per_case_summary = <<>>
    /\ matcher_log = <<>>
    /\ annotated = FALSE
    /\ results_json = <<>>
    /\ annotator_run = "none"
    /\ output = [status |-> "none"]

NextCascade == SkipExcerpt \/ ValidateExcerpt
SpecCascade == InitCascade /\ [][NextCascade]_vars

\* ------------------------------------------------------------------------
\* run_quote_validation.py main(), step by step
\* ------------------------------------------------------------------------
\* Lines 99-101.
NoCases ==
    /\ pc = "start"
    /\ state.analyzed_cases = <<>>
    /\ output' = [status |-> "no_cases"]
    /\ pc' = "done"
    /\ UNCHANGED <<matcher_vars, page_vars, results_json, annotator_run, state_file, state, files,
                   do_annotate, cases_with_excerpts, present, missing, case_pos, all_results,
                   summary, per_case_summary, matcher_log, annotated>>

\* Lines 104-109: normalize_excerpts of every case; a case with excerpts gets
\* them under "_normalized_excerpts", in the state as well (c is the dict of
\* the state).
with_normalized(analyzed_cases) ==
    [k \in 1..Len(analyzed_cases) |->
        IF normalize_excerpts(analyzed_cases[k]) = <<>> THEN analyzed_cases[k]
        ELSE ("_normalized_excerpts" :> normalize_excerpts(analyzed_cases[k]))
             @@ analyzed_cases[k]]

\* Fault: a case is kept for validation whether or not it has excerpts.
has_normalized_always(case) == TRUE

has_normalized(case) == "_normalized_excerpts" \in DOMAIN case

\* Line 129: case.get("_normalized_excerpts", []).
excerpts_of(case) ==
    IF "_normalized_excerpts" \in DOMAIN case THEN case["_normalized_excerpts"] ELSE <<>>

\* Fault: the run with nothing to validate saves an empty validation.
NoExcerpts_saving ==
    /\ pc = "start"
    /\ state.analyzed_cases # <<>>
    /\ SelectSeq(with_normalized(state.analyzed_cases), has_normalized) = <<>>
    /\ state_file' = [state EXCEPT !.quote_validation =
           [validated |-> TRUE, summary |-> EmptySummary, results |-> <<>>]]
    /\ output' = [status |-> "no_excerpts"]
    /\ pc' = "done"
    /\ UNCHANGED <<matcher_vars, page_vars, results_json, annotator_run, state, files,
                   do_annotate, cases_with_excerpts, present, missing, case_pos, all_results,
                   summary, per_case_summary, matcher_log, annotated>>

\* Lines 111-113.
NoExcerpts ==
    /\ pc = "start"
    /\ state.analyzed_cases # <<>>
    /\ SelectSeq(with_normalized(state.analyzed_cases), has_normalized) = <<>>
    /\ output' = [status |-> "no_excerpts"]
    /\ pc' = "done"
    /\ UNCHANGED <<matcher_vars, page_vars, results_json, annotator_run, state_file, state, files,
                   do_annotate, cases_with_excerpts, present, missing, case_pos, all_results,
                   summary, per_case_summary, matcher_log, annotated>>

cluster_ids_of(cases) == [k \in 1..Len(cases) |-> cases[k].cluster_id]

\* Lines 104-124: collect the cases, check the opinion files, reset the totals.
Begin ==
    /\ pc = "start"
    /\ state.analyzed_cases # <<>>
    /\ SelectSeq(with_normalized(state.analyzed_cases), has_normalized) # <<>>
    /\ state' = [state EXCEPT !.analyzed_cases = with_normalized(@)]
    /\ cases_with_excerpts' = SelectSeq(with_normalized(state.analyzed_cases), has_normalized)
    /\ present' = check_present(cluster_ids_of(cases_with_excerpts'))
    /\ missing' = check_missing(cluster_ids_of(cases_with_excerpts'))
    /\ all_results' = <<>>
    /\ summary' = EmptySummary
    /\ per_case_summary' = <<>>
    /\ case_pos' = 0
    /\ pc' = "cases"
    /\ UNCHANGED <<matcher_vars, page_vars, results_json, annotator_run, state_file, files,
                   do_annotate, matcher_log, annotated, output>>

\* The case the loop of step 2 is at, and where the loop goes after it.
current_case == cases_with_excerpts[case_pos + 1]
pc_after_case == IF case_pos + 1 = Len(cases_with_excerpts) THEN "annotate" ELSE "cases"

\* The counts of a per-case line: the entries of case_counts with v > 0.
positive_counts(case_counts) ==
    [s \in {t \in DOMAIN case_counts : case_counts[t] > 0} |-> case_counts[s]]

\* Lines 131-149: the opinion file of the case is missing or too small.
CaseOpinionMissing ==
    /\ pc = "cases"
    /\ current_case.cluster_id \notin DOMAIN present
    /\ all_results' = all_results
           \o missing_case_results(current_case, excerpts_of(current_case))
    /\ summary' = [summary EXCEPT
           !.not_found_truncated = @ + Len(excerpts_of(current_case)),
           !.total = @ + Len(excerpts_of(current_case))]
    /\ per_case_summary' = Append(per_case_summary,
           [case_name |-> current_case.case_name,
            excerpts |-> Len(excerpts_of(current_case)),
            note |-> "all skipped (opinion file missing)",
            counts |-> <<>>])
    /\ case_pos' = case_pos + 1
    /\ pc' = pc_after_case
    /\ UNCHANGED <<matcher_vars, page_vars, results_json, annotator_run, state_file, state, files,
                   do_annotate, cases_with_excerpts, present, missing, matcher_log, annotated,
                   output>>

\* Lines 154-184: the records and counts of a case from what run_matcher
\* returned for it.
absorb_matcher_results(case, acc) ==
    /\ all_results' = acc.results
    /\ summary' = acc.summary
    /\ per_case_summary' = Append(per_case_summary,
           [case_name |-> case.case_name,
            excerpts |-> Len(excerpts_of(case)),
            note |-> "",
            counts |-> positive_counts(acc.case_counts)])

\* Lines 151-184 with run_matcher returning the matcher's stdout; the matcher
\* prints results only when it could read the opinion file (vq_matcher.py
\* lines 129-130).
CaseMatched ==
    /\ pc = "cases"
    /\ current_case.cluster_id \in DOMAIN present
    /\ files[current_case.cluster_id].decodable
    /\ absorb_matcher_results(current_case,
           fold_matcher_results(
               [results |-> all_results, summary |-> summary, case_counts |-> EmptyCaseCounts],
               current_case, excerpts_of(current_case),
               present[current_case.cluster_id],
               matcher_output(files[current_case.cluster_id],
                              excerpts_of(current_case)),
               1))
    /\ matcher_log' = Append(matcher_log, <<current_case.cluster_id, "ok">>)
    /\ case_pos' = case_pos + 1
    /\ pc' = pc_after_case
    /\ UNCHANGED <<matcher_vars, page_vars, results_json, annotator_run, state_file, state, files,
                   do_annotate, cases_with_excerpts, present, missing, annotated, output>>

\* Lines 151-184 with the matcher exiting non-zero (as it does on an opinion
\* file it cannot decode, vq_matcher.py lines 129-130), timing out or
\* printing something that is not JSON (run_matcher lines 59-63 and 65-69).
CaseMatcherFailed ==
    /\ pc = "cases"
    /\ current_case.cluster_id \in DOMAIN present
    /\ absorb_matcher_results(current_case,
           fold_matcher_results(
               [results |-> all_results, summary |-> summary, case_counts |-> EmptyCaseCounts],
               current_case, excerpts_of(current_case),
               present[current_case.cluster_id],
               matcher_error_results(excerpts_of(current_case)),
               1))
    /\ matcher_log' = Append(matcher_log, <<current_case.cluster_id, "error">>)
    /\ case_pos' = case_pos + 1
    /\ pc' = pc_after_case
    /\ UNCHANGED <<matcher_vars, page_vars, results_json, annotator_run, state_file, state, files,
                   do_annotate, cases_with_excerpts, present, missing, annotated, output>>

\* run_matcher line 51: the excerpts file cannot be written; the exception is
\* not caught and main() ends without saving or printing.
CaseExcerptsUnwritable ==
    /\ pc = "cases"
    /\ current_case.cluster_id \in DOMAIN present
    /\ pc' = "aborted"
    /\ UNCHANGED <<matcher_vars, page_vars, results_json, annotator_run, state_file, state, files,
                   do_annotate, cases_with_excerpts, present, missing, case_pos, all_results,
                   summary, per_case_summary, matcher_log, annotated, output>>

\* Lines 187-192: no --annotate, or the results page does not exist.
AnnotateSkip ==
    /\ pc = "annotate"
    /\ annotated' = FALSE
    /\ pc' = "persist"
    /\ UNCHANGED <<matcher_vars, page_vars, results_json, annotator_run, state_file, state, files,
                   do_annotate, cases_with_excerpts, present, missing, case_pos, all_results,
                   summary, per_case_summary, matcher_log, output>>

\* Lines 188-192 and run_annotator: the annotator runs on the results page and
\* exits with 0 or not.
AnnotateRun ==
    /\ pc = "annotate"
    /\ do_annotate
    /\ results_json' = all_results
    /\ annotated' \in BOOLEAN
    /\ annotator_run' = IF annotated' THEN "ok" ELSE "error"
    /\ pc' = "persist"
    /\ UNCHANGED <<matcher_vars, page_vars, state_file, state, files, do_annotate,
                   cases_with_excerpts, present, missing, case_pos, all_results, summary,
                   per_case_summary, matcher_log, output>>

\* run_annotator lines 75-76: the results file cannot be written; the
\* exception is not caught and main() ends without saving or printing.
AnnotateAbort ==
    /\ pc = "annotate"
    /\ do_annotate
    /\ annotator_run' = "unwritable"
    /\ pc' = "aborted"
    /\ UNCHANGED <<matcher_vars, page_vars, results_json, state_file, state, files, do_annotate,
                   cases_with_excerpts, present, missing, case_pos, all_results, summary,
                   per_case_summary, matcher_log, annotated, output>>

\* run_annotator lines 78-81: the annotator does not finish within 60 seconds;
\* subprocess.run raises TimeoutExpired, which neither run_annotator nor main()
\* catches.
AnnotateTimeout ==
    /\ pc = "annotate"
    /\ do_annotate
    /\ results_json' = all_results
    /\ annotator_run' = "timeout"
    /\ pc' = "aborted"
    /\ UNCHANGED <<matcher_vars, page_vars, state_file, state, files, do_annotate,
                   cases_with_excerpts, present, missing, case_pos, all_results, summary,
                   per_case_summary, matcher_log, annotated, output>>

\* Fault: the record is stored as it is, excerpt_text included.
stored_result_with_text(r) == r

\* Lines 198-201: a record without its excerpt_text.
stored_result(r) == [f \in DOMAIN r \ {"excerpt_text"} |-> r[f]]

\* Lines 212-216.
not_found_excerpts(results) ==
    LET nf == SelectSeq(results, LAMBDA r : r.status = "not_found")
    IN  [k \in 1..Len(nf) |->
            [case_name |-> nf[k].case_name, excerpt_preview |-> nf[k].excerpt_preview,
             similarity |-> nf[k].similarity]]

\* Lines 195-218: save the state, print the report.
PersistAndReport ==
    /\ pc = "persist"
    /\ state' = [state EXCEPT !.quote_validation =
           [validated |-> TRUE, summary |-> summary,
            results |-> [k \in 1..Len(all_results) |-> stored_result(all_results[k])]]]
    /\ state_file' = state'
    /\ output' = [status |-> "complete", summary |-> summary, per_case |-> per_case_summary,
                  missing_opinion_files |-> missing, html_annotated |-> annotated,
                  not_found_excerpts |-> not_found_excerpts(all_results)]
    /\ pc' = "done"
    /\ UNCHANGED <<matcher_vars, page_vars, results_json, annotator_run, files, do_annotate,
                   cases_with_excerpts, present, missing, case_pos, all_results, summary,
                   per_case_summary, matcher_log, annotated>>

Next ==
    \/ NoCases
    \/ NoExcerpts
    \/ Begin
    \/ CaseOpinionMissing
    \/ CaseMatched
    \/ CaseMatcherFailed
    \/ CaseExcerptsUnwritable
    \/ AnnotateSkip
    \/ AnnotateRun
    \/ AnnotateAbort
    \/ AnnotateTimeout
    \/ PersistAndReport

Spec == Init /\ [][Next]_vars

\* ------------------------------------------------------------------------
\* vq_annotator.py: matching a block to a result
\* ------------------------------------------------------------------------
\* word occurs in text at position p.
starts_at(text, p, word) ==
    /\ p >= 1
    /\ p + Len(word) - 1 <= Len(text)
    /\ SubSeq(text, p, p + Len(word) - 1) = word

\* Where the first occurrence of word at or after position p starts; 0 if none.
find_from(text, word, p) ==
    LET First(hits) == IF hits = {} THEN 0 ELSE MinOf(hits)
    IN  First({q \in p..(Len(text) - Len(word) + 1) : starts_at(text, q, word)})

\* The ">" that ends a match of <[^>]+> starting at p; 0 if there is no match.
tag_end(text, p) ==
    IF text[p] = "<" /\ p + 1 <= Len(text) /\ text[p + 1] # ">"
    THEN find_from(text, <<">">>, p + 2)
    ELSE 0

\* re.sub(r"<[^>]+>", " ", text) on text[from..].
RECURSIVE strip_tags(_, _)
strip_tags(text, from) ==
    LET CutAt(p) ==
            SubSeq(text, from, p - 1) \o <<" ">> \o strip_tags(text, tag_end(text, p) + 1)
        Cut(tags) == IF tags = {} THEN SubSeq(text, from, Len(text)) ELSE CutAt(MinOf(tags))
    IN  Cut({p \in from..Len(text) : tag_end(text, p) > 0})

\* html.unescape on the named references of the pages of the model: the
\* entries of html.entities.html5 that start with amp, lt (no longer name),
\* gt (no longer name), quot, nbsp.  Numeric references are not modelled.
ENTITY_NAMES ==
    { [name |-> <<"a", "m", "p", ";">>, char |-> "&"],
      [name |-> <<"a", "m", "p">>, char |-> "&"],
      [name |-> <<"l", "t", ";">>, char |-> "<"],
      [name |-> <<"l", "t">>, char |-> "<"],
      [name |-> <<"g", "t", ";">>, char |-> ">"],
      [name |-> <<"g", "t">>, char |-> ">"],
      [name |-> <<"q", "u", "o", "t", ";">>, char |-> "\""],
      [name |-> <<"q", "u", "o", "t">>, char |-> "\""],
      [name |-> <<"n", "b", "s", "p", ";">>, char |-> NBSP],
      [name |-> <<"n", "b", "s", "p">>, char |-> NBSP] }
is_entity(s) == \E e \in ENTITY_NAMES : e.name = s
entity_char(s) == (CHOOSE e \in ENTITY_NAMES : e.name = s).char

\* The characters [^\t\n\f <&#;] of a reference name.
IsNameChar(c) == c \notin {"\t", "\n", " ", "<", "&", "#", ";"}
MAX_NAME_CHARS == 32

\* The end of the match of &([^\t\n\f <&#;]{1,32};?) at the "&" at p; p itself
\* if there is no match.
reference_end(text, p) ==
    LET Semi(e) == IF e > p /\ e < Len(text) /\ text[e + 1] = ";" THEN e + 1 ELSE e
        limit == IF p + MAX_NAME_CHARS < Len(text) THEN p + MAX_NAME_CHARS ELSE Len(text)
    IN  Semi(MaxOf({e \in p..limit : \A j \in (p + 1)..e : IsNameChar(text[j])}))

\* replace_charref of html.unescape for the name s: the entity, else the
\* longest proper prefix of two or more characters that is one, else "&" + s.
replace_charref(s) ==
    LET Prefix(xs) ==
            IF xs = {} THEN <<"&">> \o s
            ELSE <<entity_char(SubSeq(s, 1, MaxOf(xs)))>> \o SubSeq(s, MaxOf(xs) + 1, Len(s))
    IN  IF is_entity(s) THEN <<entity_char(s)>>
        ELSE Prefix({x \in 2..(Len(s) - 1) : is_entity(SubSeq(s, 1, x))})

RECURSIVE unescape(_, _)
unescape(text, from) ==
    LET At(p, e) ==
            SubSeq(text, from, p - 1) \o replace_charref(SubSeq(text, p + 1, e))
            \o unescape(text, e + 1)
        Step(refs) ==
            IF refs = {} THEN SubSeq(text, from, Len(text))
            ELSE At(MinOf(refs), reference_end(text, MinOf(refs)))
    IN  Step({p \in from..Len(text) : text[p] = "&" /\ reference_end(text, p) > p})

lower(text) == [i \in 1..Len(text) |-> lower_char(text[i])]

normalize_for_comparison(text) ==
    strip(collapse_whitespace(unescape(strip_tags(text, 1), 1)))

SHORT_PREVIEW_CHARS == 60

\* Fault: the overlap is the length of the excerpt text before its white space
\* is collapsed.
overlap_with_raw_length(norm_bq, r) ==
    LET Score(preview, norm_preview, short_preview) ==
            IF IsSubstring(norm_preview, norm_bq) \/ IsSubstring(norm_bq, norm_preview)
            THEN Len(preview)
            ELSE IF short_preview # <<>> /\ IsSubstring(short_preview, norm_bq)
            THEN Len(short_preview)
            ELSE 0
        Norm(preview, norm_preview) ==
            Score(preview, norm_preview, prefix_of(norm_preview, SHORT_PREVIEW_CHARS))
        Text(preview) ==
            IF preview = <<>> THEN 0
            ELSE Norm(preview, lower(strip(collapse_whitespace(preview))))
    IN  Text(lower(IF "excerpt_text" \in DOMAIN r THEN r.excerpt_text ELSE <<>>))

\* One pass of the loop of find_best_match: the overlap of result r with the
\* normalized block text, 0 when r is skipped or does not match.
overlap_with(norm_bq, r) ==
    LET Score(norm_preview, short_preview) ==
            IF IsSubstring(norm_preview, norm_bq) \/ IsSubstring(norm_bq, norm_preview)
            THEN Len(norm_preview)
            ELSE IF short_preview # <<>> /\ IsSubstring(short_preview, norm_bq)
            THEN Len(short_preview)
            ELSE 0
        Norm(norm_preview) == Score(norm_preview, prefix_of(norm_preview, SHORT_PREVIEW_CHARS))
        Text(preview) ==
            IF preview = <<>> THEN 0
            ELSE Norm(lower(strip(collapse_whitespace(preview))))
    IN  Text(lower(IF "excerpt_text" \in DOMAIN r THEN r.excerpt_text ELSE <<>>))

\* Fault: among the matching results the last in the list is taken, whether
\* or not it has been used.
find_best_match_reusing(blockquote_text, results, used) ==
    LET Pick(norm_bq) ==
            LET Best(cands) == IF cands = {} THEN 0 ELSE MaxOf(cands)
            IN  Best({i \in 1..Len(results) : overlap_with(norm_bq, results[i]) > 0})
    IN  Pick(lower(normalize_for_comparison(blockquote_text)))

\* Fault: among the unused results with the largest overlap the last wins.
find_best_match_latest(blockquote_text, results, used) ==
    LET Pick(norm_bq) ==
            LET Best(cands) ==
                    IF cands = {} THEN 0
                    ELSE MaxOf({i \in cands : \A j \in cands :
                                   overlap_with(norm_bq, results[j])
                                       <= overlap_with(norm_bq, results[i])})
            IN  Best({i \in (1..Len(results)) \ used :
                         overlap_with(norm_bq, results[i]) > 0})
    IN  Pick(lower(normalize_for_comparison(blockquote_text)))

\* Fault: a block that already carries a badge is given no result.
find_best_match_unbadged(blockquote_text, results, used) ==
    LET Pick(norm_bq) ==
            LET Best(cands) ==
                    IF cands = {} \/ IsSubstring(<<"<", "s", "p", "a", "n", " ">>, blockquote_text)
                    THEN 0
                    ELSE MinOf({i \in cands : \A j \in cands :
                                   overlap_with(norm_bq, results[j])
                                       <= overlap_with(norm_bq, results[i])})
            IN  Best({i \in (1..Len(results)) \ used :
                         overlap_with(norm_bq, results[i]) > 0})
    IN  Pick(lower(normalize_for_comparison(blockquote_text)))

\* find_best_match on the results not yet used (line 84), and line 87: the
\* index in results of the match, counted from 1; 0 for None.  The first
\* result with the largest overlap wins.
find_best_match(blockquote_text, results, used) ==
    LET Pick(norm_bq) ==
            LET Best(cands) ==
                    IF cands = {} THEN 0
                    ELSE MinOf({i \in cands : \A j \in cands :
                                   overlap_with(norm_bq, results[j])
                                       <= overlap_with(norm_bq, results[i])})
            IN  Best({i \in (1..Len(results)) \ used :
                         overlap_with(norm_bq, results[i]) > 0})
    IN  Pick(lower(normalize_for_comparison(blockquote_text)))

\* ------------------------------------------------------------------------
\* vq_annotator.py: the annotation
\* ------------------------------------------------------------------------
\* STATUS_CONFIG; a label is what comes before and after {pct}.
STATUS_CONFIG ==
    [verified |->
        [css_class |-> <<"q", "u", "o", "t", "e", "-", "v", "e", "r", "i", "f", "i", "e", "d">>,
         label |-> <<"[", "V", "e", "r", "i", "f", "i", "e", "d", "]">>,
         pct_label |-> <<>>,
         color |-> <<"#", "2", "7", "a", "e", "6", "0">>],
     likely_match |->
        [css_class |-> <<"q", "u", "o", "t", "e", "-", "l", "i", "k", "e", "l", "y">>,
         label |-> <<"[", "L", "i", "k", "e", "l", "y", " ", "M", "a", "t", "c", "h", " ",
                       EMDASH, " ">>,
         pct_label |-> <<"%", "]">>,
         color |-> <<"#", "6", "b", "8", "e", "2", "3">>],
     possible_match |->
        [css_class |-> <<"q", "u", "o", "t", "e", "-", "p", "o", "s", "s", "i", "b", "l", "e">>,
         label |-> <<"[", "U", "n", "v", "e", "r", "i", "f", "i", "e", "d", " ", EMDASH, " ">>,
         pct_label |-> <<"%", "]">>,
         color |-> <<"#", "e", "6", "7", "e", "2", "2">>],
     not_found_truncated |->
        [css_class |-> <<"q", "u", "o", "t", "e", "-", "t", "r", "u", "n", "c", "a", "t", "e", "d">>,
         label |-> <<"[", "U", "n", "v", "e", "r", "i", "f", "i", "e", "d", " ", EMDASH, " ",
                       "o", "p", "i", "n", "i", "o", "n", " ", "t", "r", "u", "n", "c", "a", "t",
                       "e", "d", "]">>,
         pct_label |-> <<>>,
         color |-> <<"#", "8", "8", "8">>],
     not_found |->
        [css_class |-> <<"q", "u", "o", "t", "e", "-", "n", "o", "t", "-", "f", "o", "u", "n", "d">>,
         label |-> <<"[", "U", "N", "V", "E", "R", "I", "F", "I", "E", "D", " ", EMDASH, " ">>,
         pct_label |-> <<"%", "]">>,
         color |-> <<"#", "e", "7", "4", "c", "3", "c">>]]

DigitChars == <<"0", "1", "2", "3", "4", "5", "6", "7", "8", "9">>
RECURSIVE decimal(_)
decimal(n) == IF n < 10 THEN <<DigitChars[n + 1]>> ELSE Append(decimal(n \div 10), DigitChars[(n % 10) + 1])

\* int(similarity * 100), the similarity in thousandths.  The product is a
\* float: for 0.29, 0.57 and 0.58 it is just below the integer.
pct_of(similarity) ==
    IF similarity \in {290, 570, 580} THEN (similarity \div 10) - 1 ELSE similarity \div 10

\* config["label"].format(pct=pct)
format_label(config, pct) ==
    IF config.pct_label = <<>> THEN config.label
    ELSE config.label \o decimal(pct) \o config.pct_label

\* html.escape(s)
escape_char(c) ==
    IF c = "&" THEN <<"&", "a", "m", "p", ";">>
    ELSE IF c = "<" THEN <<"&", "l", "t", ";">>
    ELSE IF c = ">" THEN <<"&", "g", "t", ";">>
    ELSE IF c = "\"" THEN <<"&", "q", "u", "o", "t", ";">>
    ELSE IF c = "'" THEN <<"&", "#", "x", "2", "7", ";">>
    ELSE <<c>>
escape(text) == Flatten([i \in 1..Len(text) |-> escape_char(text[i])])

SPAN_COLOR == <<"<", "s", "p", "a", "n", " ", "s", "t", "y", "l", "e", "=", "\"", "c", "o", "l",
                "o", "r", ":", " ">>
SPAN_STYLE == <<";", " ", "f", "o", "n", "t", "-", "s", "i", "z", "e", ":", " ", "0", ".", "8",
                "e", "m", ";", " ", "f", "o", "n", "t", "-", "s", "t", "y", "l", "e", ":", " ",
                "n", "o", "r", "m", "a", "l", ";">>
SPAN_BOLD == <<" ", "f", "o", "n", "t", "-", "w", "e", "i", "g", "h", "t", ":", " ", "b", "o",
               "l", "d", ";">>
SPAN_CLOSE == <<"<", "/", "s", "p", "a", "n", ">">>
DETAILS_OPEN ==
    <<"\n", "<", "d", "e", "t", "a", "i", "l", "s", " ", "s", "t", "y", "l", "e", "=", "\"", "m",
      "a", "r", "g", "i", "n", "-", "t", "o", "p", ":", " ", "0", ".", "3", "e", "m", ";", " ",
      "f", "o", "n", "t", "-", "s", "i", "z", "e", ":", " ", "0", ".", "8", "5", "e", "m", ";",
      "\"", ">", "<", "s", "u", "m", "m", "a", "r", "y", " ", "s", "t", "y", "l", "e", "=", "\"",
      "c", "o", "l", "o", "r", ":", " ", "#", "e", "7", "4", "c", "3", "c", ";", " ", "c", "u",
      "r", "s", "o", "r", ":", " ", "p", "o", "i", "n", "t", "e", "r", ";", "\"", ">", "S", "h",
      "o", "w", " ", "c", "l", "o", "s", "e", "s", "t", " ", "m", "a", "t", "c", "h", " ", "i",
      "n", " ", "o", "p", "i", "n", "i", "o", "n", "<", "/", "s", "u", "m", "m", "a", "r", "y",
      ">", "<", "p", " ", "s", "t", "y", "l", "e", "=", "\"", "c", "o", "l", "o", "r", ":", " ",
      "#", "6", "6", "6", ";", " ", "f", "o", "n", "t", "-", "s", "t", "y", "l", "e", ":", " ",
      "n", "o", "r", "m", "a", "l", ";", " ", "p", "a", "d", "d", "i", "n", "g", ":", " ", "0",
      ".", "5", "e", "m", ";", " ", "b", "a", "c", "k", "g", "r", "o", "u", "n", "d", ":", " ",
      "#", "f", "9", "f", "9", "f", "9", ";", " ", "b", "o", "r", "d", "e", "r", "-", "r", "a",
      "d", "i", "u", "s", ":", " ", "4", "p", "x", ";", "\"", ">">>
DETAILS_CLOSE == <<".", ".", ".", "<", "/", "p", ">", "<", "/", "d", "e", "t", "a", "i", "l",
                   "s", ">">>
MATCH_PREVIEW_CHARS == 200

\* build_annotation
build_annotation(r) ==
    LET Details ==
            IF r.status = "not_found" /\ "best_match_preview" \in DOMAIN r
               /\ r.best_match_preview # <<>>
            THEN DETAILS_OPEN \o escape(prefix_of(r.best_match_preview, MATCH_PREVIEW_CHARS))
                 \o DETAILS_CLOSE
            ELSE <<>>
        Span(config) ==
            SPAN_COLOR \o config.color \o SPAN_STYLE
            \o (IF r.status \in {"not_found", "possible_match"} THEN SPAN_BOLD ELSE <<>>)
            \o <<"\"", ">">>
            \o format_label(config, pct_of(IF "similarity" \in DOMAIN r THEN r.similarity ELSE 0))
            \o SPAN_CLOSE \o Details
    IN  IF r.status \in DOMAIN STATUS_CONFIG THEN Span(STATUS_CONFIG[r.status]) ELSE <<>>

\* STATUS_CONFIG.get(best["status"], {}).get("css_class", "")
css_class_of(r) ==
    IF r.status \in DOMAIN STATUS_CONFIG THEN STATUS_CONFIG[r.status].css_class ELSE <<>>

CLASS_EQ == <<"c", "l", "a", "s", "s", "=">>
CLASS_ATTR == <<"c", "l", "a", "s", "s", "=", "\"">>

\* re.sub(r'class="([^"]*)"', 'class="\1 <css_class>"', open_tag) on
\* open_tag[from..]: every class="..." gets the class before its closing quote.
RECURSIVE add_to_class(_, _, _)
add_to_class(open_tag, css_class, from) ==
    LET quote_of(p) == find_from(open_tag, <<"\"">>, p + Len(CLASS_ATTR))
        At(p, q) ==
            SubSeq(open_tag, from, q - 1) \o <<" ">> \o css_class \o <<"\"">>
            \o add_to_class(open_tag, css_class, q + 1)
        Step(attrs) ==
            IF attrs = {} THEN SubSeq(open_tag, from, Len(open_tag))
            ELSE At(MinOf(attrs), quote_of(MinOf(attrs)))
    IN  Step({p \in from..Len(open_tag) :
                 starts_at(open_tag, p, CLASS_ATTR) /\ quote_of(p) > 0})

BLOCKQUOTE_OPEN == <<"<", "b", "l", "o", "c", "k", "q", "u", "o", "t", "e">>
BLOCKQUOTE_CLOSE == <<"<", "/", "b", "l", "o", "c", "k", "q", "u", "o", "t", "e", ">">>

\* Lines 91-94: the opening tag with the class of the result.
new_open_tag(open_tag, css_class) ==
    IF IsSubstring(CLASS_EQ, open_tag)
    THEN add_to_class(open_tag, css_class, 1)
    ELSE BLOCKQUOTE_OPEN \o <<" ">> \o CLASS_ATTR \o css_class \o <<"\"">>
         \o SubSeq(open_tag, Len(BLOCKQUOTE_OPEN) + 1, Len(open_tag))

\* blockquote_pattern at position p: (<blockquote(?:\s[^>]*)?>)(.*?)(</blockquote>).
\* The end of the opening tag, 0 if "<blockquote" followed by ">" or by
\* whitespace and a later ">" does not start at p.
open_tag_end(html, p) ==
    LET After(q) ==
            IF q > Len(html) THEN 0
            ELSE IF html[q] = ">" THEN q
            ELSE IF IsSpace(html[q]) THEN find_from(html, <<">">>, q + 1)
            ELSE 0
    IN  IF starts_at(html, p, BLOCKQUOTE_OPEN) THEN After(p + Len(BLOCKQUOTE_OPEN)) ELSE 0

\* The match of blockquote_pattern at p: the body runs to the first closing
\* tag after the opening tag.
NoBlock == [start |-> 0, open_end |-> 0, close_start |-> 0, close_end |-> 0]
block_at(html, p) ==
    LET Body(e, c) ==
            IF c = 0 THEN NoBlock
            ELSE [start |-> p, open_end |-> e, close_start |-> c,
                  close_end |-> c + Len(BLOCKQUOTE_CLOSE) - 1]
        Open(e) == IF e = 0 THEN NoBlock ELSE Body(e, find_from(html, BLOCKQUOTE_CLOSE, e + 1))
    IN  Open(open_tag_end(html, p))

\* The next match of blockquote_pattern at or after position from.
next_block(html, from) ==
    LET First(starts) == IF starts = {} THEN NoBlock ELSE block_at(html, MinOf(starts))
    IN  First({p \in from..Len(html) : block_at(html, p).start > 0})

open_tag_of(html, b) == SubSeq(html, b.start, b.open_end)
content_of(html, b) == SubSeq(html, b.open_end + 1, b.close_start - 1)
close_tag_of(html, b) == SubSeq(html, b.close_start, b.close_end)

\* Fault: the block is rebuilt from its normalized text.
replace_blockquote_normalized(html, b, best) ==
    new_open_tag(open_tag_of(html, b), css_class_of(best))
    \o normalize_for_comparison(content_of(html, b)) \o build_annotation(best)
    \o close_tag_of(html, b)

\* Lines 89-96: what replaces the block b that result best was found for.
replace_blockquote(html, b, best) ==
    new_open_tag(open_tag_of(html, b), css_class_of(best))
    \o content_of(html, b) \o build_annotation(best) \o close_tag_of(html, b)

\* ------------------------------------------------------------------------
\* Inputs of an annotation pass
\* ------------------------------------------------------------------------
MaxBlocks == 2
MaxResults == 2

\* "the dog ran home yesterday then jumped high over the fence and kept going"
LONG_QUOTE ==
    DOG_OPINION \o <<" ", "a", "n", "d", " ", "k", "e", "p", "t", " ", "g", "o", "i", "n", "g">>

\* The records of the results file: "the dog ran" (verified), "The dog ran  home"
\* (not_found, with a closest match), LONG_QUOTE (likely_match).
AnnotatorResultPool ==
    { [excerpt_text |-> <<"t", "h", "e", " ", "d", "o", "g", " ", "r", "a", "n">>,
       status |-> "verified", similarity |-> 1000, best_match_preview |-> <<>>],
      [excerpt_text |-> <<"T", "h", "e", " ", "d", "o", "g", " ", "r", "a", "n", " ", " ", "h",
                         "o", "m", "e">>,
       status |-> "not_found", similarity |-> 682,
       best_match_preview |-> <<"t", "h", "e", " ", "d", "o", "g", " ", "r", "a", "n", " ", "f",
                               "a", "r">>],
      [excerpt_text |-> LONG_QUOTE,
       status |-> "likely_match", similarity |-> 957, best_match_preview |-> <<>>] }

RECURSIVE ResultLists(_)
ResultLists(n) ==
    IF n = 0 THEN {<<>>}
    ELSE LET shorter == ResultLists(n - 1)
         IN  shorter \cup {Append(l, r) : l \in shorter, r \in AnnotatorResultPool}

\* Records without excerpt text: a whitespace-only excerpt the matcher skipped
\* (vq_matcher.py line 141) and an excerpt without text of a case whose opinion
\* file is missing (run_quote_validation.py lines 133-144).
BlankResults ==
    { [excerpt_text |-> <<" ", " ">>,
       status |-> "skipped", similarity |-> 0, best_match_preview |-> <<>>],
      [excerpt_text |-> <<>>,
       status |-> "not_found_truncated", similarity |-> 0, best_match_preview |-> <<>>] }

\* The results files: at most MaxResults records with text, in any order and
\* with repetitions; the three records with text in each order; a record
\* without text followed by at most one with text.
ResultChoices ==
    ResultLists(MaxResults)
    \cup {l \in ResultLists(3) :
             Len(l) = 3 /\ Cardinality({l[k] : k \in 1..3}) = 3}
    \cup {<<b>> \o l : b \in BlankResults, l \in ResultLists(1)}

\* The quotation blocks of a page:
\*   <blockquote class="quote">The <b>dog</b>&nbsp;ran home</blockquote>
\*   <blockquote>no such text</blockquote>
\*   <blockquote id="b4"> the first 60 characters of LONG_QUOTE ...</blockquote>
PageBlocks ==
    { <<"<", "b", "l", "o", "c", "k", "q", "u", "o", "t", "e", " ", "c", "l", "a", "s", "s", "=",
        "\"", "q", "u", "o", "t", "e", "\"", ">", "T", "h", "e", " ", "<", "b", ">", "d", "o",
        "g", "<", "/", "b", ">", "&", "n", "b", "s", "p", ";", "r", "a", "n", " ", "h", "o", "m",
        "e", "<", "/", "b", "l", "o", "c", "k", "q", "u", "o", "t", "e", ">">>,
      <<"<", "b", "l", "o", "c", "k", "q", "u", "o", "t", "e", ">", "n", "o", " ", "s", "u", "c",
        "h", " ", "t", "e", "x", "t", "<", "/", "b", "l", "o", "c", "k", "q", "u", "o", "t", "e",
        ">">>,
      <<"<", "b", "l", "o", "c", "k", "q", "u", "o", "t", "e", " ", "i", "d", "=", "\"", "b",
        "4", "\"", ">">>
      \o SubSeq(LONG_QUOTE, 1, SHORT_PREVIEW_CHARS) \o <<" ", ".", ".", ".", "<", "/", "b", "l", "o", "c", "k", "q", "u", "o", "t", "e", ">">> }

RECURSIVE BlockLists(_)
BlockLists(n) ==
    IF n = 0 THEN {<<>>}
    ELSE LET shorter == BlockLists(n - 1)
         IN  shorter \cup {Append(l, b) : l \in shorter, b \in PageBlocks}

\* A page: a paragraph, the blocks one per line, and an opening tag that is
\* never closed.
PAGE_HEAD == <<"<", "p", ">", "H", "e", " ", "w", "r", "o", "t", "e", ":", "<", "/", "p", ">",
               "\n">>
PAGE_TAIL == <<"<", "b", "l", "o", "c", "k", "q", "u", "o", "t", "e", ">", "u", "n", "c", "l",
               "o", "s", "e", "d">>
page_of(blocks) ==
    PAGE_HEAD \o Flatten([k \in 1..Len(blocks) |-> blocks[k] \o <<"\n">>]) \o PAGE_TAIL
EMPTY_BLOCK == BLOCKQUOTE_OPEN \o <<">">> \o BLOCKQUOTE_CLOSE
Pages == {page_of(blocks) : blocks \in BlockLists(MaxBlocks) \cup {<<EMPTY_BLOCK>>}}

\* ------------------------------------------------------------------------
\* vq_annotator.py annotate_html(html_content, results), block by block
\* ------------------------------------------------------------------------
\* html_content and results_json are the two arguments of the call.
InitAnnotate ==
    /\ MatcherIdle
    /\ MainIdle
    /\ html_content \in Pages
    /\ results_json \in ResultChoices
    /\ previous_pass = NoPass
    /\ used_results = {}
    /\ scan_pos = 1
    /\ annotated_html = <<>>
    /\ assignments = <<>>
    /\ annotator_pc = "scan"

\* Lines 80-96: blockquote_pattern.sub found a block and find_best_match a
\* result for it.
AnnotateBlock ==
    LET Assign(b, best) ==
            /\ best > 0
            /\ used_results' = used_results \cup {best}
            /\ annotated_html' = annotated_html \o SubSeq(html_content, scan_pos, b.start - 1)
                                 \o replace_blockquote(html_content, b, results_json[best])
            /\ assignments' = Append(assignments, [block |-> b, result |-> best])
            /\ scan_pos' = b.close_end + 1
        Block(b) ==
            /\ b.start > 0
            /\ Assign(b, find_best_match(content_of(html_content, b), results_json,
                                         used_results))
    IN  /\ annotator_pc = "scan"
        /\ Block(next_block(html_content, scan_pos))
        /\ UNCHANGED <<matcher_vars, main_vars, html_content, annotator_pc, previous_pass>>

\* Lines 80-86: no unused result matches the block; it stays as it is.
LeaveBlock ==
    LET Block(b) ==
            /\ b.start > 0
            /\ find_best_match(content_of(html_content, b), results_json, used_results) = 0
            /\ annotated_html' = annotated_html \o SubSeq(html_content, scan_pos, b.close_end)
            /\ assignments' = Append(assignments, [block |-> b, result |-> 0])
            /\ scan_pos' = b.close_end + 1
    IN  /\ annotator_pc = "scan"
        /\ Block(next_block(html_content, scan_pos))
        /\ UNCHANGED <<matcher_vars, main_vars, html_content, used_results, annotator_pc,
                       previous_pass>>

\* Line 98: no block is left; blockquote_pattern.sub copies the rest of the page
\* and annotate_html returns.
ReturnAnnotated ==
    /\ annotator_pc = "scan"
    /\ next_block(html_content, scan_pos).start = 0
    /\ annotated_html' = annotated_html \o SubSeq(html_content, scan_pos, Len(html_content))
    /\ scan_pos' = Len(html_content) + 1
    /\ annotator_pc' = "done"
    /\ UNCHANGED <<matcher_vars, main_vars, html_content, used_results, assignments,
                   previous_pass>>

\* main() lines 105-111, a second time: vq_annotator.py has written the
\* annotated page over the page and is run on it again with the same results.
AnnotateAgain ==
    /\ annotator_pc = "done"
    /\ ~previous_pass.ran
    /\ previous_pass' = [ran |-> TRUE, html_content |-> html_content,
                         annotated_html |-> annotated_html, assignments |-> assignments]
    /\ html_content' = annotated_html
    /\ used_results' = {}
    /\ scan_pos' = 1
    /\ annotated_html' = <<>>
    /\ assignments' = <<>>
    /\ annotator_pc' = "scan"
    /\ UNCHANGED <<matcher_vars, main_vars>>

\* One run of vq_annotator.py on a page.
NextAnnotate == AnnotateBlock \/ LeaveBlock \/ ReturnAnnotated
SpecAnnotate == InitAnnotate /\ [][NextAnnotate]_vars

\* Two runs of vq_annotator.py, the second on the output of the first, with
\* fewer than MaxResults results.
InitAnnotateTwice == InitAnnotate /\ Len(results_json) < MaxResults
NextAnnotateTwice == AnnotateBlock \/ LeaveBlock \/ ReturnAnnotated \/ AnnotateAgain
SpecAnnotateTwice == InitAnnotateTwice /\ [][NextAnnotateTwice]_vars

\* ------------------------------------------------------------------------
\* Properties of the cascade (SpecCascade)
\* ------------------------------------------------------------------------
\* The cascade has run on an excerpt with non-whitespace text.
cascade_done == matcher_pc = "done" /\ strip(excerpt_text) # <<>>

\* What each tier finds for the excerpt and the opinion of the state.
tier1_holds ==
    tier1_normalized_substring(normalize_text(opinion_text),
                               normalize_text(strip_brackets(excerpt_text)))
tier2_holds == tier2_token_sequence(tokenize(opinion_text), excerpt_text)
best_fuzzy_ratio == tier3_fuzzy_match(tokenize(opinion_text), excerpt_text).best_ratio

\* C1: the similarity the cascade returns lies in [0, 1], and a similarity of
\* 1.0 (the rounded ratio of the fuzzy tier included) comes only with status
\* verified.
C1_SimilarityOneIsVerified ==
    cascade_done =>
        /\ result.similarity \in 0..1000
        /\ result.similarity = 1000 => result.status = "verified"

\* C4: the tiers are tried in order and the first success wins: normalized_exact
\* exactly when tier 1 succeeds, token_sequence exactly when tier 1 fails and
\* tier 2 succeeds, a fuzzy or none tier only when both fail.
C4_FirstSuccessWins ==
    cascade_done =>
        /\ (result.status = "verified" /\ result.match_tier = "normalized_exact")
               <=> tier1_holds
        /\ (result.status = "verified" /\ result.match_tier = "token_sequence")
               <=> (~tier1_holds /\ tier2_holds)
        /\ result.match_tier \in {"fuzzy", "none"} <=> (~tier1_holds /\ ~tier2_holds)
        /\ result.match_tier \in {"normalized_exact", "token_sequence", "fuzzy", "none"}
        /\ result.match_tier \in {"fuzzy", "none"} =>
               result.status \in {"likely_match", "possible_match", "not_found",
                                  "not_found_truncated"}

\* Both tiers would succeed, and tier 1 decided.
C4_BothTiersSucceed ==
    /\ cascade_done
    /\ tier1_holds
    /\ tier2_holds
    /\ result.match_tier = "normalized_exact"

\* C5: an excerpt that, without its brackets and normalized, is a substring of
\* the normalized opinion (the empty string included) is verified by
\* normalized_exact with similarity 1.0.
C5_NormalizedSubstringVerified ==
    cascade_done /\ IsSubstring(normalize_text(strip_brackets(excerpt_text)),
                                normalize_text(opinion_text))
        => /\ result.status = "verified"
           /\ result.match_tier = "normalized_exact"
           /\ result.similarity = 1000

\* A non-whitespace excerpt that normalizes to the empty string was verified.
C5_EmptyNormalizedExcerpt ==
    /\ cascade_done
    /\ normalize_text(strip_brackets(excerpt_text)) = <<>>
    /\ result.status = "verified"
    /\ result.match_tier = "normalized_exact"

\* The cursor positions that placing token lists 1..k in opinion_tokens can end
\* at, over every placement: contiguous runs, in order, list k+1 starting at or
\* after the end of list k.
RECURSIVE placement_ends(_, _, _)
placement_ends(opinion_tokens, lists, k) ==
    IF k = 0 THEN {0}
    ELSE LET After(prev) ==
                 {i + Len(lists[k]) : i \in
                     {j \in 0..(Len(opinion_tokens) - Len(lists[k])) :
                         /\ \E e \in prev : e <= j
                         /\ SubSeq(opinion_tokens, j + 1, j + Len(lists[k])) = lists[k]}}
         IN  After(placement_ends(opinion_tokens, lists, k - 1))
Placeable(opinion_tokens, lists) == placement_ends(opinion_tokens, lists, Len(lists)) # {}

\* The token lists of the non-empty segments of the excerpt, the empty lists
\* kept.
segment_tokens_of_state ==
    LET Lists(segments) == [k \in 1..Len(segments) |-> tokenize(segments[k])]
    IN  Lists(split_ellipsis_segments(strip_brackets(excerpt_text)))

\* C6 as stated: tier 2 succeeds if and only if the token lists of the non-empty
\* segments can be placed in the opinion's tokens as contiguous, non-overlapping
\* runs in segment order.
C6_Tier2IffPlaceable ==
    cascade_done =>
        (tier2_holds <=> Placeable(tokenize(opinion_text), segment_tokens_of_state))

\* C6, amended: tier 2 succeeds if and only if at least one segment holds a
\* token and the non-empty token lists of the segments can be placed in the
\* opinion's tokens as contiguous, non-overlapping runs in segment order.
C6_Tier2IffTokensPlaceable ==
    cascade_done =>
        (tier2_holds <=>
            /\ segment_token_lists_of(excerpt_text) # <<>>
            /\ Placeable(tokenize(opinion_text), segment_token_lists_of(excerpt_text)))

\* Two segments, each found in the opinion, but only in the wrong order.
C6_WrongOrderFails ==
    /\ cascade_done
    /\ Len(segment_token_lists_of(excerpt_text)) = 2
    /\ segment_token_lists_of(excerpt_text)[1] # segment_token_lists_of(excerpt_text)[2]
    /\ \A k \in 1..2 :
          find_token_subsequence(tokenize(opinion_text),
                                 segment_token_lists_of(excerpt_text)[k]) >= 0
    /\ ~tier2_holds
    /\ result.match_tier \notin {"normalized_exact", "token_sequence"}

\* C7: with tiers 1 and 2 failing, the best ratio r decides: r >= 0.92 is
\* likely_match, 0.85 <= r < 0.92 is possible_match, r < 0.85 is not_found below
\* a stored length of 49,500 and not_found_truncated from there on.
C7_FuzzyThresholds ==
    LET status_for(r) ==
            IF r[1] * 100 >= 92 * r[2] THEN "likely_match"
            ELSE IF r[1] * 100 >= 85 * r[2] THEN "possible_match"
            ELSE IF opinion_length >= 49500 THEN "not_found_truncated"
            ELSE "not_found"
    IN  cascade_done /\ ~tier1_holds /\ ~tier2_holds =>
            result.status = status_for(best_fuzzy_ratio)

\* A ratio just below 0.92 that rounds to 0.92 was classified by the ratio.
C7_BelowThresholdRoundsUp ==
    /\ cascade_done
    /\ result.status = "possible_match"
    /\ result.similarity = 920
    /\ best_fuzzy_ratio[1] * 100 < 92 * best_fuzzy_ratio[2]

\* ------------------------------------------------------------------------
\* Properties of a validation run (Spec)
\* ------------------------------------------------------------------------
\* main() has run to its end and printed the report.
run_complete == pc = "done" /\ output.status = "complete"

\* <<cluster id, excerpt index>> of every excerpt of every case of the session,
\* cases in input order, excerpts in order.
expected_keys ==
    Flatten([k \in 1..Len(state.analyzed_cases) |->
        [i \in 1..Len(normalize_excerpts(state.analyzed_cases[k])) |->
            <<state.analyzed_cases[k].cluster_id, i - 1>>]])
result_keys(results) ==
    [k \in 1..Len(results) |-> <<results[k].cluster_id, results[k].excerpt_index>>]

\* C2: after a complete run the result list holds, for every case with n >= 1
\* excerpts, exactly n records with excerpt_index 0..n-1 ascending, the cases in
\* input order, whichever path each case took.
C2_OneRecordPerExcerptInOrder ==
    run_complete =>
        /\ result_keys(all_results) = expected_keys
        /\ result_keys(state_file.quote_validation.results) = expected_keys

\* A run with a case whose opinion is missing and a case whose matcher run
\* failed, two excerpts each.
C2_MissingAndFailedCase ==
    /\ run_complete
    /\ Len(missing) = 1
    /\ Len(matcher_log) = 1
    /\ matcher_log[1][2] = "error"
    /\ Len(all_results) = 4

count_status(results, s) == Cardinality({k \in 1..Len(results) : results[k].status = s})
per_case_count(line, s) == IF s \in DOMAIN line.counts THEN line.counts[s] ELSE 0

\* C3: after a complete run every status counter of the summary is the number
\* of records with that status, the total is the number of records, and every
\* status counter is the sum of the per-case counts of that status over all
\* cases, those with a missing opinion file included.
C3_SummaryMatchesRecordsAndCases ==
    run_complete =>
        /\ output.summary.total = Len(all_results)
        /\ \A s \in StatusNames :
              /\ output.summary[s] = count_status(all_results, s)
              /\ output.summary[s] =
                     SumSeq([k \in 1..Len(output.per_case) |->
                                per_case_count(output.per_case[k], s)],
                            1, Len(output.per_case))

\* C8: after a complete run a record has status not_found only if the opinion
\* of its case is present with a size in [1000, 49500) and a stored length
\* below 49,500.
C8_NotFoundOnlyBelowLimit ==
    run_complete =>
        \A k \in 1..Len(all_results) :
            all_results[k].status = "not_found" =>
                /\ files[all_results[k].cluster_id].exists
                /\ file_size(files[all_results[k].cluster_id]) >= 1000
                /\ file_size(files[all_results[k].cluster_id]) < 49500
                /\ file_length(files[all_results[k].cluster_id]) < 49500

\* The matcher ran on an opinion file of exactly 49,500 bytes and an excerpt it
\* did not find: the record is not_found_truncated.
C8_UnmatchedAtTheLimit ==
    /\ run_complete
    /\ \E k \in 1..Len(all_results) :
          /\ file_size(files[all_results[k].cluster_id]) = 49500
          /\ <<all_results[k].cluster_id, "ok">> \in {matcher_log[j] : j \in 1..Len(matcher_log)}
          /\ strip(all_results[k].excerpt_text) # <<>>
          /\ all_results[k].status = "not_found_truncated"
          /\ all_results[k].match_tier = "none"

matcher_ran_ok(cid) == \E j \in 1..Len(matcher_log) : matcher_log[j] = <<cid, "ok">>
is_skipped(r) == r.status = "skipped" /\ r.match_tier = "none" /\ r.similarity = 0

C10_MissingOpinionHandling ==
    run_complete =>
        \A c \in 1..Len(state.analyzed_cases) :
            LET cid == state.analyzed_cases[c].cluster_id
                listed == {m \in 1..Len(output.missing_opinion_files) :
                              output.missing_opinion_files[m].cluster_id = cid}
            IN  normalize_excerpts(state.analyzed_cases[c]) # <<>> =>
                    IF ~files[cid].exists \/ file_size(files[cid]) < 1000
                    THEN /\ \A j \in 1..Len(matcher_log) : matcher_log[j][1] # cid
                         /\ \A k \in 1..Len(all_results) :
                               all_results[k].cluster_id = cid =>
                                   /\ all_results[k].status = "not_found_truncated"
                                   /\ all_results[k].match_tier = "none"
                                   /\ all_results[k].similarity = 0
                         /\ Cardinality(listed) = 1
                         /\ \A m \in listed :
                               output.missing_opinion_files[m].reason =
                                   IF files[cid].exists
                                   THEN <<"too small", file_size(files[cid])>>
                                   ELSE <<"file not found">>
                    ELSE listed = {}

\* A run with a file of 999 bytes, listed as too small, and a file of exactly
\* 1000 bytes, which the matcher ran on.
C10_TooSmallAndJustEnough ==
    /\ run_complete
    /\ Len(output.missing_opinion_files) = 1
    /\ output.missing_opinion_files[1].reason = <<"too small", 999>>
    /\ \E j \in 1..Len(matcher_log) : file_size(files[matcher_log[j][1]]) = 1000

matcher_failed(cid) == \E j \in 1..Len(matcher_log) : matcher_log[j] = <<cid, "error">>
records_of(results, cid) == SelectSeq(results, LAMBDA r : r.cluster_id = cid)
TierNames == {"normalized_exact", "token_sequence", "fuzzy", "none"}

\* C11: a case whose matcher run fails gets one record per excerpt, each with
\* status not_found and match_tier none, and the cases after it are still
\* processed: a complete run counts every excerpt of every case in the summary.
C11_FailedCaseNotFoundNone ==
    /\ \A c \in 1..Len(cases_with_excerpts) :
          LET case == cases_with_excerpts[c]
              recs == records_of(all_results, case.cluster_id)
          IN  matcher_failed(case.cluster_id) =>
                  /\ Len(recs) = Len(excerpts_of(case))
                  /\ \A k \in 1..Len(recs) :
                        /\ recs[k].status = "not_found"
                        /\ recs[k].match_tier = "none"
    /\ run_complete =>
          /\ case_pos = Len(cases_with_excerpts)
          /\ output.summary.total = Len(expected_keys)

\* C12: every record of a run, in memory and in the saved state, on every path,
\* has its status in the six status names and its match_tier in the four tier
\* names.
C12_StatusAndTierInRange ==
    /\ \A k \in 1..Len(all_results) :
          /\ all_results[k].status \in StatusNames
          /\ all_results[k].match_tier \in TierNames
    /\ \A k \in 1..Len(state_file.quote_validation.results) :
          /\ state_file.quote_validation.results[k].status \in StatusNames
          /\ state_file.quote_validation.results[k].match_tier \in TierNames

\* The records of the run as save_state stores them.
persisted_results == [k \in 1..Len(all_results) |-> stored_result(all_results[k])]

\* Annotation was requested and did not succeed: the annotator exited non-zero
\* (which it also does when it cannot write the page) or timed out, or the run
\* completed without starting it because the results page is missing.
annotator_failed ==
    \/ annotator_run \in {"error", "timeout"}
    \/ run_complete /\ do_annotate /\ annotator_run = "none"

\* C13: a run whose annotation was requested and failed ends by reporting
\* html_annotated = false, with the summary and the records it computed saved
\* in the session state.
C13_AnnotatorFailureStillPersists ==
    (pc \in {"done", "aborted"} /\ annotator_failed) =>
        /\ output.status = "complete"
        /\ output.html_annotated = FALSE
        /\ output.summary = summary
        /\ state_file.quote_validation.validated
        /\ state_file.quote_validation.summary = summary
        /\ state_file.quote_validation.results = persisted_results

\* C19: whenever the annotator has been started, the quote_validation summary
\* of the run is already in the state file.
C19_PersistBeforeAnnotator ==
    annotator_run \in {"ok", "error", "timeout"} =>
        /\ state_file.quote_validation.validated
        /\ state_file.quote_validation.summary = summary

\* The text of the excerpt a record is about, from the case record of the state.
excerpt_text_of(r) ==
    LET case == CHOOSE c \in {state.analyzed_cases[k] : k \in 1..Len(state.analyzed_cases)} :
                    c.cluster_id = r.cluster_id
    IN  normalize_excerpts(case)[r.excerpt_index + 1].text
annotator_started == annotator_run \in {"ok", "error", "timeout"}

\* C16: no record saved under quote_validation has an excerpt_text field; each
\* has a preview of at most 80 characters, the start of the excerpt; the
\* records written for the annotator carry the whole text of their excerpt.
C16_NoExcerptTextPersisted ==
    /\ \A k \in 1..Len(state_file.quote_validation.results) :
          LET r == state_file.quote_validation.results[k]
          IN  /\ "excerpt_text" \notin DOMAIN r
              /\ Len(r.excerpt_preview) <= 80
              /\ r.excerpt_preview = SubSeq(excerpt_text_of(r), 1, Len(r.excerpt_preview))
    /\ annotator_started =>
          /\ Len(results_json) = Len(all_results)
          /\ \A k \in 1..Len(results_json) :
                /\ "excerpt_text" \in DOMAIN results_json[k]
                /\ results_json[k].excerpt_text = excerpt_text_of(results_json[k])

\* A complete run with the annotator started and an excerpt of 81 characters:
\* the saved record has the first 80, the annotator's record all 81.
C16_LongExcerptCutInState ==
    /\ run_complete
    /\ annotator_started
    /\ \E k \in 1..Len(results_json) :
          /\ Len(results_json[k].excerpt_text) = 81
          /\ Len(state_file.quote_validation.results[k].excerpt_preview) = 80

\* No case of the session has an excerpt.
no_case_has_excerpts ==
    \A k \in 1..Len(state.analyzed_cases) : normalize_excerpts(state.analyzed_cases[k]) = <<>>

\* C17: a run on a session without analyzed cases ends with status no_cases,
\* a run on a session none of whose cases has an excerpt with no_excerpts, and
\* status complete is printed only with at least one record counted.
C17_NothingToValidateIsExplicit ==
    /\ pc = "done" =>
          /\ state.analyzed_cases = <<>> => output.status = "no_cases"
          /\ (state.analyzed_cases # <<>> /\ no_case_has_excerpts) =>
                 output.status = "no_excerpts"
    /\ output.status = "complete" =>
          /\ Len(all_results) >= 1
          /\ output.summary.total >= 1
          /\ ~no_case_has_excerpts

\* A session with two cases, neither with an excerpt, ended with no_excerpts.
C17_CasesWithoutExcerpts ==
    /\ pc = "done"
    /\ Len(state.analyzed_cases) = 2
    /\ no_case_has_excerpts
    /\ output.status = "no_excerpts"
    /\ state_file.quote_validation = NoValidation

\* ------------------------------------------------------------------------
\* Properties of normalisation and of the ellipsis markers (SpecCascade)
\* ------------------------------------------------------------------------
\* C18: normalize_text applied to the normalized opinion or excerpt of a
\* cascade run gives the same text again.
C18_NormalizeIdempotent ==
    matcher_pc = "done" =>
        /\ normalize_text(normalize_text(opinion_text)) = normalize_text(opinion_text)
        /\ normalize_text(normalize_text(excerpt_text)) = normalize_text(excerpt_text)

\* The excerpt with every bracketed ellipsis written as three periods.
dotted(text) ==
    LET Dots(marked) ==
            Flatten([i \in 1..Len(marked) |->
                IF marked[i] = NUL THEN <<".", ".", ".">> ELSE <<marked[i]>>])
    IN  Dots(mark_bracket_ellipsis(text))

\* C20: an excerpt with a bracketed ellipsis is verified by tier 2 whenever the
\* same excerpt with three periods in place of each bracketed ellipsis is: the
\* cascade then returns verified, by token_sequence unless tier 1 already
\* matched.
C20_BracketEllipsisIsBoundary ==
    (/\ cascade_done
     /\ dotted(excerpt_text) # excerpt_text
     /\ tier2_token_sequence(tokenize(opinion_text), dotted(excerpt_text))) =>
        /\ tier2_holds
        /\ result.status = "verified"
        /\ result.match_tier \in {"normalized_exact", "token_sequence"}

\* ------------------------------------------------------------------------
\* Properties of an annotation pass (SpecAnnotate)
\* ------------------------------------------------------------------------
annotated_blocks == {k \in 1..Len(assignments) : assignments[k].result > 0}

\* C14: within one annotation pass each result is assigned to at most one
\* quotation block: any two annotated blocks carry the annotations of two
\* different result records, and the consumed results are exactly the assigned
\* ones, whatever other results the blocks match as well.
C14_ResultConsumedOnce ==
    /\ \A j, k \in annotated_blocks :
           j # k => assignments[j].result # assignments[k].result
    /\ used_results = {assignments[k].result : k \in annotated_blocks}
    /\ Cardinality(used_results) = Cardinality(annotated_blocks)

matches_block(k, i) ==
    overlap_with(normalize_for_comparison(content_of(html_content, assignments[k].block)),
                 results_json[i]) > 0

\* Two blocks annotated from two results while a third result, left over,
\* matches both blocks.
C14_TwoBlocksShareThirdMatch ==
    /\ annotator_pc = "done"
    /\ Cardinality(annotated_blocks) = 2
    /\ \E i \in 1..Len(results_json) :
           /\ i \notin used_results
           /\ \A k \in annotated_blocks : matches_block(k, i)

RECURSIVE is_subsequence(_, _, _, _)
\* s[i..] can be obtained from t[j..] by deleting characters.
is_subsequence(s, i, t, j) ==
    IF i > Len(s) THEN TRUE
    ELSE IF j > Len(t) THEN FALSE
    ELSE IF s[i] = t[j] THEN is_subsequence(s, i + 1, t, j + 1)
    ELSE is_subsequence(s, i, t, j + 1)

\* Where block k starts and ends in the output, given what was written
\* before it.
scanned_before(k) == IF k = 1 THEN 1 ELSE assignments[k - 1].block.close_end + 1
scanned_to == IF assignments = <<>> THEN 1 ELSE assignments[Len(assignments)].block.close_end + 1

\* The output for block k and the text before it: the text before it, its
\* opening tag (possibly longer), its body, the annotation, its closing tag.
expected_block(k) ==
    LET Piece(b, i) ==
            SubSeq(html_content, scanned_before(k), b.start - 1)
            \o (IF i = 0 THEN open_tag_of(html_content, b)
                ELSE new_open_tag(open_tag_of(html_content, b), css_class_of(results_json[i])))
            \o content_of(html_content, b)
            \o (IF i = 0 THEN <<>> ELSE build_annotation(results_json[i]))
            \o close_tag_of(html_content, b)
    IN  Piece(assignments[k].block, assignments[k].result)

\* C15: the annotator never alters quoted text: the output is the input with,
\* for each block that got a result, characters added inside its opening tag
\* (the class) and the annotation inserted right before its closing tag; the
\* body of every block and all text outside the blocks are the input's,
\* character for character, and a block without a result is unchanged.
C15_QuotedTextUnaltered ==
    /\ annotated_html
         = Flatten([k \in 1..Len(assignments) |-> expected_block(k)])
           \o (IF annotator_pc = "done"
               THEN SubSeq(html_content, scanned_to, Len(html_content)) ELSE <<>>)
    /\ \A k \in annotated_blocks :
           LET Kept(open_tag, r) ==
                   /\ is_subsequence(open_tag, 1, new_open_tag(open_tag, css_class_of(r)), 1)
                   /\ SubSeq(new_open_tag(open_tag, css_class_of(r)), 1, Len(BLOCKQUOTE_OPEN))
                        = BLOCKQUOTE_OPEN
           IN  Kept(open_tag_of(html_content, assignments[k].block),
                    results_json[assignments[k].result])
    /\ annotator_pc = "done" /\ annotated_blocks = {} => annotated_html = html_content

\* A page whose annotated block has markup and an entity in its body, and
\* which also has a block left without a result.
C15_MarkupBodyAnnotated ==
    /\ annotator_pc = "done"
    /\ \E k \in annotated_blocks :
           LET Marked(body) == /\ find_from(body, <<"<">>, 1) > 0
                               /\ find_from(body, <<"&">>, 1) > 0
           IN  Marked(content_of(html_content, assignments[k].block))
    /\ \E k \in 1..Len(assignments) : assignments[k].result = 0
    /\ annotated_html # html_content

\* ------------------------------------------------------------------------
\* Tier 3 on the excerpt and the opinion of the state (SpecCascade)
\* ------------------------------------------------------------------------
tier3_ran == cascade_done /\ result.match_tier \in {"fuzzy", "none"}
n_excerpt_tokens == Len(tokenize(strip_brackets(excerpt_text)))
n_opinion_tokens == Len(tokenize(opinion_text))

\* What tier 3 returns for the excerpt and the opinion of the state.
fuzzy_search == tier3_fuzzy_match(tokenize(opinion_text), excerpt_text)

\* The sizes of the windows for which a search computed a ratio.
examined_sizes(search) ==
    LET Sizes(windows) == {windows[w][1] : w \in 1..search.examined}
    IN  Sizes(tier3_windows(n_opinion_tokens, n_excerpt_tokens))

\* num/den rounded to the nearest integer, and rounded down.
round_to_int(num, den) == (2 * num + den) \div (2 * den)
floor_of(num, den) == CHOOSE k \in 0..num : den * k <= num /\ num < den * (k + 1)
larger(a, b) == IF a > b THEN a ELSE b

\* C21 as stated: tier 3 examines exactly the window sizes from
\* max(5, round(0.8n)) to round(1.2n), capped at the opinion's token count, and
\* with an opinion shorter than the smallest size no window and a best ratio
\* of 0.
C21_WindowSizesRounded ==
    tier3_ran =>
        LET Stated(search, lo, hi) ==
                /\ examined_sizes(search) = {s \in 1..n_opinion_tokens : lo <= s /\ s <= hi}
                /\ n_opinion_tokens < lo => search.examined = 0 /\ search.best_ratio[1] = 0
        IN  Stated(fuzzy_search,
                   larger(MIN_WINDOW_TOKENS, round_to_int(4 * n_excerpt_tokens, 5)),
                   round_to_int(6 * n_excerpt_tokens, 5))

\* C21, amended: tier 3 examines only window sizes from max(5, floor(0.8n)) to
\* floor(1.2n) + 1, capped at the opinion's token count, in ascending order:
\* all of them when the best ratio stays below 0.98, the sizes up to the one
\* of the window that reached 0.98 otherwise; with an opinion shorter than the
\* smallest size no window is examined and the best ratio is 0.
C21_WindowSizesTruncated ==
    tier3_ran =>
        LET Examined(sizes, all, best) ==
                /\ sizes \subseteq all
                /\ \A s \in sizes : \A t \in all : t < s => t \in sizes
                /\ ~ratio_ge_permille(best, EARLY_EXIT_PERMILLE) => sizes = all
                /\ ratio_ge_permille(best, EARLY_EXIT_PERMILLE) => sizes # {}
            Holds(search, lo, hi) ==
                /\ n_excerpt_tokens > 0 =>
                       Examined(examined_sizes(search),
                                {s \in 1..n_opinion_tokens : lo <= s /\ s <= hi},
                                search.best_ratio)
                /\ n_excerpt_tokens = 0 => search.examined = 0
                /\ n_opinion_tokens < lo =>
                       /\ search.examined = 0
                       /\ search.best_ratio[1] = 0
                       /\ result.similarity = 0
        IN  Holds(fuzzy_search,
                  larger(MIN_WINDOW_TOKENS, floor_of(4 * n_excerpt_tokens, 5)),
                  floor_of(6 * n_excerpt_tokens, 5) + 1)

\* Tier 3 examined every size of a range whose ends differ from the rounded
\* ones, and in another run met an opinion too short for any window.
C21_SizesBeyondRounded ==
    /\ tier3_ran
    /\ result.similarity < EARLY_EXIT_PERMILLE - 1
    /\ floor_of(6 * n_excerpt_tokens, 5) + 1 \in examined_sizes(fuzzy_search)
    /\ floor_of(6 * n_excerpt_tokens, 5) + 1 > round_to_int(6 * n_excerpt_tokens, 5)
    /\ floor_of(4 * n_excerpt_tokens, 5) \in examined_sizes(fuzzy_search)
    /\ floor_of(4 * n_excerpt_tokens, 5) < round_to_int(4 * n_excerpt_tokens, 5)

\* Tier 3 ran on an opinion with fewer tokens than the smallest window size.
C21_OpinionTooShort ==
    /\ tier3_ran
    /\ n_excerpt_tokens > 0
    /\ n_opinion_tokens > 0
    /\ n_opinion_tokens < MIN_WINDOW_TOKENS
    /\ result.similarity = 0

\* The ratios of all the windows of the two loops, none left out.
all_window_ratios ==
    LET Ratios(opinion_tokens, excerpt_str, windows) ==
            {ratio(excerpt_str,
                   join_space(SubSeq(opinion_tokens, windows[w][2] + 1,
                                     windows[w][2] + windows[w][1]))) :
                 w \in 1..Len(windows)}
    IN  Ratios(tokenize(opinion_text), join_space(tokenize(strip_brackets(excerpt_text))),
               tier3_windows(n_opinion_tokens, n_excerpt_tokens))

\* The largest of them, 0 when there is none.
exhaustive_ratio ==
    LET Largest(ratios) ==
            IF ratios = {} THEN <<0, 1>>
            ELSE CHOOSE r \in ratios : \A q \in ratios : ~ratio_gt(q, r)
    IN  Largest(all_window_ratios)

\* C27: the early exit at ratio >= 0.98 never changes the classification: the
\* status and the tier returned are those of the largest ratio over all the
\* windows; the ratio the search stopped at never exceeds that ratio.
C27_EarlyExitKeepsStatus ==
    tier3_ran =>
        LET Classified(best) ==
                /\ result.status
                     = IF ratio_ge_permille(best, LIKELY_PERMILLE) THEN "likely_match"
                       ELSE IF ratio_ge_permille(best, POSSIBLE_PERMILLE) THEN "possible_match"
                       ELSE IF opinion_length >= TRUNCATION_LENGTH THEN "not_found_truncated"
                       ELSE "not_found"
                /\ result.match_tier
                     = IF ratio_ge_permille(best, POSSIBLE_PERMILLE) THEN "fuzzy" ELSE "none"
                /\ result.similarity <= round3(best)
        IN  Classified(exhaustive_ratio)

\* The search stopped early although a later window has a larger ratio.
C27_StoppedBeforeBestWindow ==
    /\ tier3_ran
    /\ result.similarity >= EARLY_EXIT_PERMILLE
    /\ result.similarity < round3(exhaustive_ratio)
    /\ result.status = "likely_match"

\* ------------------------------------------------------------------------
\* The choice of a result for a block (SpecAnnotate)
\* ------------------------------------------------------------------------
\* The results assigned to the blocks before block k, the block body and the
\* excerpt of result i as find_best_match compares them.
used_before(k) == {assignments[j].result : j \in 1..(k - 1)} \ {0}
norm_body(k) == lower(normalize_for_comparison(content_of(html_content, assignments[k].block)))
norm_excerpt(i) == lower(strip(collapse_whitespace(results_json[i].excerpt_text)))

\* The overlap length of an excerpt with a body: the length of the excerpt
\* when one contains the other, of its first 60 characters when these are
\* contained in the body; -1 when the excerpt is no candidate for the body.
candidate_overlap(excerpt, body) ==
    IF IsSubstring(excerpt, body) \/ IsSubstring(body, excerpt) THEN Len(excerpt)
    ELSE IF IsSubstring(prefix_of(excerpt, SHORT_PREVIEW_CHARS), body)
    THEN Len(prefix_of(excerpt, SHORT_PREVIEW_CHARS))
    ELSE -1

\* Block k was given the earliest of the candidates with the largest overlap,
\* and none when there is no candidate; overlaps[i] is the overlap of result i.
chosen_among(k, cands, overlaps) ==
    /\ cands = {} <=> assignments[k].result = 0
    /\ cands # {} =>
           /\ assignments[k].result \in cands
           /\ \A i \in cands :
                  /\ overlaps[i] <= overlaps[assignments[k].result]
                  /\ overlaps[i] = overlaps[assignments[k].result]
                         => assignments[k].result <= i

blocks_in_order ==
    \A k \in 2..Len(assignments) :
        assignments[k].block.start > assignments[k - 1].block.close_end

\* C22 as stated: for each block, in document order, the candidates are the
\* unconsumed results whose normalized excerpt contains or is contained in the
\* normalized block body, or whose first 60 normalized characters are
\* contained in the body; the block gets the candidate with the largest
\* overlap, the earliest on a tie, which is then consumed; a block with no
\* candidate is left unchanged.
C22_CandidatesByContainment ==
    /\ blocks_in_order
    /\ used_results = used_before(Len(assignments) + 1)
    /\ \A k \in 1..Len(assignments) :
           LET Chosen(overlaps) ==
                   chosen_among(k, {i \in DOMAIN overlaps \ used_before(k) : overlaps[i] >= 0},
                                overlaps)
               Body(body) ==
                   Chosen([i \in 1..Len(results_json) |->
                              candidate_overlap(norm_excerpt(i), body)])
           IN  Body(norm_body(k))

\* C22, amended: the candidates are the unconsumed results with a non-empty
\* normalized excerpt that contains or is contained in the normalized block
\* body, or whose first 60 characters are contained in the body; a result
\* whose excerpt text is empty or white space is never a candidate.
C22_CandidatesWithText ==
    /\ blocks_in_order
    /\ used_results = used_before(Len(assignments) + 1)
    /\ \A k \in 1..Len(assignments) :
           LET Chosen(overlaps) ==
                   chosen_among(k, {i \in DOMAIN overlaps \ used_before(k) : overlaps[i] > 0},
                                overlaps)
               Body(body) ==
                   Chosen([i \in 1..Len(results_json) |->
                              candidate_overlap(norm_excerpt(i), body)])
           IN  Body(norm_body(k))
    /\ annotator_pc = "scan" /\ assignments # <<>> =>
           LET Unchanged(b, given) ==
                   given = 0 =>
                       SubSeq(annotated_html,
                              Len(annotated_html) - (b.close_end - b.start), Len(annotated_html))
                         = SubSeq(html_content, b.start, b.close_end)
           IN  Unchanged(assignments[Len(assignments)].block,
                         assignments[Len(assignments)].result)

\* A block with two candidates of different overlap got the larger one, and
\* the next block, left with a candidate without text only, stayed unchanged.
C22_LargestOfTwoThenNone ==
    /\ Len(assignments) = 2
    /\ ~previous_pass.ran
    /\ assignments[1].result > 0
    /\ \E i \in 1..Len(results_json) :
           /\ candidate_overlap(norm_excerpt(i), norm_body(1)) > 0
           /\ candidate_overlap(norm_excerpt(i), norm_body(1))
                < candidate_overlap(norm_excerpt(assignments[1].result), norm_body(1))
    /\ assignments[2].result = 0

\* A block was left unchanged although an unconsumed result without text is,
\* as the empty string, contained in its body.
C22_BlankCandidateIgnored ==
    /\ Len(assignments) >= 1
    /\ assignments[1].result = 0
    /\ \E i \in 1..Len(results_json) : norm_excerpt(i) = <<>>

\* C30: a result whose excerpt text is empty or white space is never assigned
\* to a block, and every block the annotator modifies gets a non-empty status
\* class and a non-empty badge from the status table.
C30_BlankNeverAssigned ==
    \A k \in annotated_blocks :
        LET Badged(r) ==
                /\ strip(r.excerpt_text) # <<>>
                /\ r.status \in DOMAIN STATUS_CONFIG
                /\ css_class_of(r) # <<>>
                /\ build_annotation(r) # <<>>
                /\ STATUS_CONFIG[r.status].label # <<>>
        IN  Badged(results_json[assignments[k].result])

\* A page was annotated from a results file that begins with a record without
\* text.
C30_BlankSkippedTextAssigned ==
    /\ annotator_pc = "done"
    /\ results_json # <<>>
    /\ strip(results_json[1].excerpt_text) = <<>>
    /\ results_json[1].status \in {"skipped", "not_found_truncated"}
    /\ 2 \in used_results
    /\ 1 \notin used_results

\* C23: annotation is not idempotent: when the first run gave a block a result
\* whose excerpt text is contained in the block body, the second run over the
\* annotated page with the same results adds a badge to a block that already
\* has one, and its output differs from the output of the first run.
C23_SecondRunAddsBadge ==
    previous_pass.ran /\ annotator_pc = "done" =>
        LET first == previous_pass.assignments
            Contained(k) ==
                /\ first[k].result > 0
                /\ norm_excerpt(first[k].result) # <<>>
                /\ IsSubstring(norm_excerpt(first[k].result),
                               lower(normalize_for_comparison(
                                   content_of(previous_pass.html_content, first[k].block))))
        IN  (\E k \in 1..Len(first) : Contained(k)) =>
                /\ annotated_html # html_content
                /\ Len(annotated_html) > Len(html_content)
                /\ Len(assignments) = Len(first)
                /\ \E k \in annotated_blocks :
                       /\ first[k].result > 0
                       /\ find_from(content_of(html_content, assignments[k].block),
                                    SPAN_COLOR, 1) > 0

\* The second run gave the same result to the same block again.
C23_BadgedTwice ==
    /\ previous_pass.ran
    /\ annotator_pc = "done"
    /\ \E k \in annotated_blocks :
           /\ previous_pass.assignments[k].result = assignments[k].result
           /\ IsSubstring(norm_excerpt(assignments[k].result),
                          lower(normalize_for_comparison(
                              content_of(previous_pass.html_content,
                                         previous_pass.assignments[k].block))))
    /\ annotated_html # html_content

\* ------------------------------------------------------------------------
\* C24: an opinion file that cannot be decoded
\* ------------------------------------------------------------------------
\* The case's opinion file exists with at least 1000 bytes but is not text the
\* matcher can decode.
opinion_unreadable(cid) ==
    /\ files[cid].exists
    /\ file_size(files[cid]) >= MIN_OPINION_BYTES
    /\ ~files[cid].decodable

\* C24: a case whose opinion file is present with 1000 bytes or more but
\* cannot be read or decoded ends like a case whose file is absent: each of
\* its excerpts is not_found_truncated and the case is in the list of missing
\* opinion files.
C24_UnreadableFileAsMissing ==
    run_complete =>
        \A c \in 1..Len(cases_with_excerpts) :
            LET case == cases_with_excerpts[c]
                recs == records_of(all_results, case.cluster_id)
            IN  opinion_unreadable(case.cluster_id) =>
                    /\ Len(recs) = Len(excerpts_of(case))
                    /\ \A k \in 1..Len(recs) : recs[k].status = "not_found_truncated"
                    /\ \E m \in 1..Len(output.missing_opinion_files) :
                          output.missing_opinion_files[m].cluster_id = case.cluster_id

\* ------------------------------------------------------------------------
\* C25: how a run ends
\* ------------------------------------------------------------------------
\* The terminal status signals of main() (lines 100, 112 and 206).
TerminalStatuses == {"no_cases", "no_excerpts", "complete"}

\* main() has returned or has been ended by an exception: no step of the
\* run is left.
run_ended == pc \notin {"start", "cases", "annotate", "persist"}

\* C25: every run ends by printing a terminal status (nothing to validate,
\* or complete), whatever fails in the matcher or the annotator: a run that
\* has no step left to take has printed one, and no run ends in an uncaught
\* exception with nothing printed.
C25_RunEndsWithTerminalStatus ==
    run_ended => (pc = "done" /\ output.status \in TerminalStatuses)

\* ------------------------------------------------------------------------
\* C29: the run with nothing to validate
\* ------------------------------------------------------------------------
\* The statuses of a run that found nothing to validate (lines 100 and 112).
NothingToValidate == {"no_cases", "no_excerpts"}

\* C29: the step that prints a nothing-to-validate status is the whole run
\* (it starts where main() starts) and leaves the state file and the loaded
\* state as they were, writes no quote_validation entry, runs neither the
\* matcher nor the annotator, writes no annotator input, and checks no
\* opinion file.
C29_ShortCircuitTouchesNothing ==
    [][ output'.status \in NothingToValidate =>
            /\ pc = "start"
            /\ state_file' = state_file
            /\ state_file'.quote_validation = NoValidation
            /\ state' = state
            /\ files' = files
            /\ matcher_log' = <<>>
            /\ annotator_run' = "none"
            /\ results_json' = <<>>
            /\ present' = <<>>
            /\ missing' = <<>>
            /\ all_results' = <<>> ]_vars

\* Two analyzed cases, neither with an excerpt, the second with an opinion
\* file of 1000 bytes, in a run asked to annotate: nothing to validate.
C29_TwoCasesNoExcerpts ==
    /\ output.status = "no_excerpts"
    /\ Len(state.analyzed_cases) = 2
    /\ do_annotate
    /\ files[2].exists
    /\ file_size(files[2]) = 1000

\* ------------------------------------------------------------------------
\* C28: what a run changes in the state file
\* ------------------------------------------------------------------------
\* The state file but for its quote_validation entry.
outside_validation(st) == [key \in DOMAIN st \ {"quote_validation"} |-> st[key]]

\* C28: a run changes the state file under quote_validation only: whenever
\* the file is written, every other entry of it, each analyzed case record
\* with its excerpts included, is what it was before.
C28_OnlyValidationKeyChanges ==
    [][ outside_validation(state_file') = outside_validation(state_file) ]_vars

\* ------------------------------------------------------------------------
\* C26: the cases in another order
\* ------------------------------------------------------------------------
\* Lines 125-184 for one case, on the records and the summary so far: the
\* opinion file is missing, or the matcher ran on it and ended as it did in
\* this run.
process_case(acc, case) ==
    IF case.cluster_id \notin DOMAIN present
    THEN [results |-> acc.results \o missing_case_results(case, excerpts_of(case)),
          summary |-> [acc.summary EXCEPT
              !.not_found_truncated = @ + Len(excerpts_of(case)),
              !.total = @ + Len(excerpts_of(case))]]
    ELSE LET folded == fold_matcher_results(
                 [results |-> acc.results, summary |-> acc.summary,
                  case_counts |-> EmptyCaseCounts],
                 case, excerpts_of(case), present[case.cluster_id],
                 IF matcher_ran_ok(case.cluster_id)
                 THEN matcher_output(files[case.cluster_id], excerpts_of(case))
                 ELSE matcher_error_results(excerpts_of(case)),
                 1)
         IN  [results |-> folded.results, summary |-> folded.summary]

\* The loop of lines 125-184 over the cases taken in the given order.
RECURSIVE process_in_order(_, _, _)
process_in_order(acc, order, k) ==
    IF k > Len(order) THEN acc
    ELSE process_in_order(process_case(acc, cases_with_excerpts[order[k]]), order, k + 1)

\* Every order of the n cases.
CaseOrders(n) == {order \in [1..n -> 1..n] : \A i, j \in 1..n : order[i] = order[j] => i = j}

NothingProcessed == [results |-> <<>>, summary |-> EmptySummary]

\* C26: after a complete run, the records of each case are the records that
\* processing that case alone gives (they depend on its own excerpts and
\* opinion file only), and processing the cases in any other order gives the
\* summary counters of the run.
C26_OrderIndependent ==
    run_complete =>
        /\ \A c \in 1..Len(cases_with_excerpts) :
              records_of(all_results, cases_with_excerpts[c].cluster_id)
                  = process_case(NothingProcessed, cases_with_excerpts[c]).results
        /\ \A order \in CaseOrders(Len(cases_with_excerpts)) :
              /\ process_in_order(NothingProcessed, order, 1).summary = summary
              /\ output.summary = summary

\* Two cases with records of different statuses, one verified by the matcher
\* and one whose matcher run failed: the other order gives other records.
C26_TwoCasesOrderMatters ==
    /\ run_complete
    /\ Len(cases_with_excerpts) = 2
    /\ matcher_ran_ok(cases_with_excerpts[1].cluster_id)
    /\ matcher_failed(cases_with_excerpts[2].cluster_id)
    /\ all_results[1].status = "verified"
    /\ process_in_order(NothingProcessed, <<2, 1>>, 1).results # all_results

====
